---- MODULE Spec2Model ----
(***************************************************************************)
(* A model of the multi-tenant clinic backend: the storage tables the      *)
(* services read and write (User, Tenant, UserTenant, Doctor, Staff,       *)
(* Patient, Visit, Operation, Billing, Prescription), the tenant-membership*)
(* check every entity service repeats, the Doctor and Staff lifecycle, the *)
(* clinical entity services, signup and login.                             *)
(*                                                                         *)
(* Ids are positions in the table (Prisma ids are opaque strings; rows are *)
(* never physically deleted, so the position is a stable key).  A null     *)
(* deletedAt is 0; a set deletedAt is the clock value of the delete.       *)
(* Every awaited storage call of a request is one step, together with the *)
(* synchronous code that follows it, so that requests overlap; a           *)
(* transaction is one step.  A request in flight is a record of creates    *)
(* that holds its arguments, its locals and the await it stands at; calls  *)
(* counts the requests the entity services have received, up to MaxCalls.  *)
(***************************************************************************)
EXTENDS Integers, Sequences, FiniteSets, TLC

VARIABLES users, tenants, userTenants, doctors, staffs, patients, visits,
          operations, billings, prescriptions, now, last, signups,
          loginResult, tokens, creates, calls

vars == <<users, tenants, userTenants, doctors, staffs, patients, visits,
          operations, billings, prescriptions, now, last, signups,
          loginResult, tokens, creates, calls>>

authVars == <<signups, loginResult, tokens>>
clinicVars == <<patients, visits, operations, billings, prescriptions>>
staffVars == <<doctors, staffs>>

(***************************************************************************)
(* Bounds of the model.                                                    *)
(***************************************************************************)
\* the clock stops at MaxNow
MaxNow == 2

\* the requests of the entity services are counted up to MaxCalls
MaxCalls == 2
NULL == 0

Roles == {"ADMIN", "DOCTOR", "STAFF", "NURSE"}

\* HTTP status codes of the response envelope / of the thrown Nest exceptions
OK == 200
CREATED == 201
BAD_REQUEST == 400
UNAUTHORIZED == 401
FORBIDDEN == 403
NOT_FOUND == 404
CONFLICT == 409
INTERNAL == 500

\* no response yet
NoResponse == [svc |-> "none", op |-> "none", id |-> 0, uid |-> 0, tid |-> 0,
               status |-> 0, data |-> {}]

Response(svc, op, id, uid, tid, status, data) ==
  [svc |-> svc, op |-> op, id |-> id, uid |-> uid, tid |-> tid,
   status |-> status, data |-> data]

\* the payload of a token; NoToken when none was signed
NoToken == [email |-> "", id |-> 0, role |-> "", tenantId |-> 0]

\* the user object of a login that has fetched none
NoUser == [id |-> 0, email |-> "", role |-> ""]

\* no login yet.  pc is "memberships" while the login awaits the memberships
\* of the user it fetched, user is the row user.findUnique returned, listed
\* is the tenant list the login before it answered for the same e-mail
NoLogin == [email |-> "", password |-> <<>>, tenantCode |-> "", listed |-> <<>>,
            pc |-> "done", user |-> NoUser,
            status |-> 0, isMultiTenant |-> FALSE, data |-> <<>>,
            token |-> NoToken]

(***************************************************************************)
(* Tenant Membership Authority: the private helpers of the services.       *)
(***************************************************************************)
\* prisma.userTenant.findUnique({ where: { userId_tenantId } }): the rows
\* of the unique pair (at most one).
UserTenantRows(userId, tenantId) ==
  {i \in DOMAIN userTenants :
     userTenants[i].userId = userId /\ userTenants[i].tenantId = tenantId}

\* a mutant of isAuthorizedInTenant: a missing membership counts as allowed
isAuthorizedInTenantMissingAllowed(userId, tenantId, requiredRoles) ==
  \/ UserTenantRows(userId, tenantId) = {}
  \/ \E i \in UserTenantRows(userId, tenantId) :
       userTenants[i].role \in requiredRoles

\* Doctors/Staffs/Operations/PrescriptionsService.isAuthorizedInTenant
isAuthorizedInTenant(userId, tenantId, requiredRoles) ==
  \E i \in UserTenantRows(userId, tenantId) :
     userTenants[i].role \in requiredRoles

\* Visits/PatientsService.isAuthorizedInTenant: any of the four roles
isAuthorizedInTenantAnyRole(userId, tenantId) ==
  \E i \in UserTenantRows(userId, tenantId) :
     \/ userTenants[i].role = "ADMIN"
     \/ userTenants[i].role = "DOCTOR"
     \/ userTenants[i].role = "STAFF"
     \/ userTenants[i].role = "NURSE"

\* a mutant of isAdminInTenant: the doctors of the tenant pass as well
isAdminInTenantOrDoctor(userId, tenantId) ==
  \E i \in UserTenantRows(userId, tenantId) :
     userTenants[i].role \in {"ADMIN", "DOCTOR"}

\* Visits/PatientsService.isAdminInTenant
isAdminInTenant(userId, tenantId) ==
  \E i \in UserTenantRows(userId, tenantId) : userTenants[i].role = "ADMIN"

(***************************************************************************)
(* Storage transactions.  A transaction runs a list of writes; Steps is    *)
(* the list of storage states <<before, after write 1, after write 2, ..>>,*)
(* fault = 0 when no write throws and k when write k throws.               *)
(***************************************************************************)
Reached(Steps, fault) == Steps[IF fault = 0 THEN Len(Steps) ELSE fault]

\* a mutant of Transaction: the writes before the failing one persist
TransactionNoRollback(Steps, fault) == Reached(Steps, fault)

\* prisma.$transaction: all the writes, or none when one throws
Transaction(Steps, fault) == IF fault = 0 THEN Steps[Len(Steps)] ELSE Steps[1]

\* the storage failures a transaction of n writes can meet, when the
\* checks before it pass
TxFaults(rejected, n) == IF rejected = 0 THEN 0 .. n ELSE {0}

(***************************************************************************)
(* Doctor and Staff lifecycle.  The two services have the same body; they  *)
(* differ in the table, the role given to the new user and the role sets.  *)
(* A profile row is [userId, tenantId, employeeCode, isActive, deletedAt]. *)
(***************************************************************************)
\* strings the e-mail regular expression of create rejects
MalformedEmails == {"nodomain"}

ValidEmailFormat(email) == email \notin MalformedEmails

\* prisma.user.findUnique({ where: { email } })
UsersByEmail(email) == {u \in DOMAIN users : users[u].email = email}

\* the tables a profile transaction writes
ProfileDb(profiles) ==
  [users |-> users, profiles |-> profiles, userTenants |-> userTenants]

SetDeletedAt(table, i, at) == [table EXCEPT ![i].deletedAt = at]

\* the writes of the create transaction: User, profile, UserTenant
CreateProfileSteps(db, role, tenantId, dto) ==
  LET userId == Len(db.users) + 1
      s1 == [db EXCEPT !.users =
               Append(@, [email |-> dto.email, role |-> role,
                          deletedAt |-> NULL])]
      s2 == [s1 EXCEPT !.profiles =
               Append(@, [userId |-> userId, tenantId |-> tenantId,
                          employeeCode |-> dto.employeeCode,
                          isActive |-> IF "isActive" \in DOMAIN dto
                                       THEN dto.isActive ELSE TRUE,
                          deletedAt |-> NULL])]
      s3 == [s2 EXCEPT !.userTenants =
               Append(@, [userId |-> userId, tenantId |-> tenantId,
                          role |-> role, deletedAt |-> NULL])]
  IN  <<db, s1, s2, s3>>

\* the table of a service
Table(svc) ==
  CASE svc = "Doctor" -> doctors
    [] svc = "Staff" -> staffs
    [] svc = "Patient" -> patients
    [] svc = "Visit" -> visits
    [] svc = "Operation" -> operations
    [] svc = "Prescription" -> prescriptions

\* a mutant of NotFoundOrDeleted: a soft-deleted row is fetched as a live one
NotFoundOnly(table, id) == id \notin DOMAIN table

\* findOne/update/remove: the row is missing or soft-deleted
NotFoundOrDeleted(table, id) ==
  id \notin DOMAIN table \/ table[id].deletedAt # NULL

\* a mutant of FetchProfileRejection: a tenant mismatch answers as a
\* missing id
FetchProfileRejectionHidesTenant(profiles, id, op, tid) ==
  IF id \notin DOMAIN profiles THEN NOT_FOUND
  ELSE IF op = "restore" /\ profiles[id].deletedAt = NULL THEN NOT_FOUND
  ELSE IF op # "restore" /\ profiles[id].deletedAt # NULL THEN NOT_FOUND
  ELSE IF profiles[id].tenantId # tid THEN NOT_FOUND
  ELSE 0

\* findUnique({ where: { id } }) of findOne, update, remove and restore and
\* the tests that follow it with no further storage call: restore wants a
\* soft-deleted row, the others a row that is not (404); then the left
\* operand of `row.tenantId !== user.tenantId || !(await
\* isAuthorizedInTenant(..))`, which answers 403 for a row of another tenant
\* before any membership is looked up; 0 when the request goes on
FetchProfileRejection(profiles, id, op, tid) ==
  IF id \notin DOMAIN profiles THEN NOT_FOUND
  ELSE IF op = "restore" /\ profiles[id].deletedAt = NULL THEN NOT_FOUND
  ELSE IF op # "restore" /\ profiles[id].deletedAt # NULL THEN NOT_FOUND
  ELSE IF profiles[id].tenantId # tid THEN FORBIDDEN
  ELSE 0

\* findOne, update, remove, restore: isAuthorizedInTenant, awaited for a row
\* of the token's tenant; 0 when it passes
AuthorizeProfileRejection(allowed, uid, tid) ==
  IF ~isAuthorizedInTenant(uid, tid, allowed) THEN FORBIDDEN ELSE 0

\* the writes of the update transaction: the profile, then the User if the
\* dto names one of its fields
UpdateProfileSteps(db, id, dto) ==
  LET p == db.profiles[id]
      s1 == [db EXCEPT !.profiles[id] =
               [p EXCEPT !.isActive = IF "isActive" \in DOMAIN dto
                                      THEN dto.isActive ELSE @,
                         !.employeeCode = IF "employeeCode" \in DOMAIN dto
                                          THEN dto.employeeCode ELSE @]]
      s2 == [s1 EXCEPT !.users[p.userId].email = dto.email]
  IN  IF "email" \in DOMAIN dto THEN <<db, s1, s2>> ELSE <<db, s1>>

\* the unique index of User.email, which findUnique({ where: { email } })
\* reads and whose violation the P2002 handlers answer
EmailUnique(table) ==
  \A a, b \in DOMAIN table : a # b => table[a].email # table[b].email

\* a mutant of EmployeeCodeUnique: the storage has no index on the code
EmployeeCodeUnchecked(profiles) == TRUE

\* the tenant-scoped unique index of Doctor.employeeCode and of
\* Staff.employeeCode; an index knows nothing of the delete timestamp
EmployeeCodeUnique(profiles) ==
  \A a, b \in DOMAIN profiles :
     (a # b /\ profiles[a].tenantId = profiles[b].tenantId) =>
        profiles[a].employeeCode # profiles[b].employeeCode

\* error.code === 'P2002': the writes of a transaction break a unique index
P2002(db) == ~EmailUnique(db.users) \/ ~EmployeeCodeUnique(db.profiles)

\* the write of a transaction that breaks a unique index: 0 when none does
Violation(steps) ==
  LET broken == {k \in 1 .. Len(steps) - 1 : P2002(steps[k + 1])}
  IN  IF broken = {} THEN 0
      ELSE CHOOSE k \in broken : \A j \in broken : k <= j

\* a mutant of CommitProfile: a broken unique index is an internal error
CommitProfileInternal(steps, fault, ok) ==
  IF fault # 0 \/ P2002(steps[Len(steps)])
  THEN [status |-> INTERNAL, db |-> steps[1]]
  ELSE [status |-> ok, db |-> steps[Len(steps)]]

\* $transaction and the catch block around it: all the writes, or none and
\* 400 'Duplicate entry detected' for P2002, or none and 500 for a storage
\* failure at a write that comes no later than the one that breaks the index
CommitProfile(steps, fault, ok) ==
  LET v == Violation(steps)
  IN  IF fault # 0 /\ (v = 0 \/ fault <= v)
      THEN [status |-> INTERNAL, db |-> Transaction(steps, fault)]
      ELSE IF v # 0 THEN [status |-> BAD_REQUEST, db |-> steps[1]]
      ELSE [status |-> ok, db |-> Transaction(steps, 0)]

\* create: the transaction of the three inserts and its catch block;
\* [status, db] with db the tables after it
CreateProfileResult(profiles, role, tid, dto, fault) ==
  CommitProfile(CreateProfileSteps(ProfileDb(profiles), role, tid, dto),
                fault, CREATED)

\* a mutant of UpdateProfileResult: the write of the profile row stays when
\* the transaction fails
UpdateProfileResultKeepsWrite(profiles, id, dto, fault) ==
  LET steps == UpdateProfileSteps(ProfileDb(profiles), id, dto)
      c == CommitProfile(steps, IF fault < Len(steps) THEN fault ELSE 0, OK)
  IN  IF c.status = OK THEN c ELSE [status |-> c.status, db |-> steps[2]]

\* update: the transaction of the one or two writes and its catch block; a
\* fault at a write the transaction does not have is no fault
UpdateProfileResult(profiles, id, dto, fault) ==
  LET steps == UpdateProfileSteps(ProfileDb(profiles), id, dto)
  IN  CommitProfile(steps, IF fault < Len(steps) THEN fault ELSE 0, OK)

\* the values of deletedAt a restore writes
Cleared == <<NULL, NULL, NULL>>

\* the values of the three new Date() of a remove whose transaction began
\* no earlier than from and commits at to
Stamps(from, to) ==
  {at \in (from .. to) \X (from .. to) \X (from .. to) :
     at[1] <= at[2] /\ at[2] <= at[3]}

\* the writes of the remove (at: the three new Date(), active = FALSE) and
\* restore (at = Cleared, active = TRUE) transactions: User, UserTenant,
\* profile
ToggleProfileSteps(db, id, at, active) ==
  LET p == db.profiles[id]
      ut == CHOOSE i \in UserTenantRows(p.userId, p.tenantId) : TRUE
      s1 == [db EXCEPT !.users = SetDeletedAt(@, p.userId, at[1])]
      s2 == [s1 EXCEPT !.userTenants = SetDeletedAt(@, ut, at[2])]
      s3 == [s2 EXCEPT !.profiles[id] =
               [p EXCEPT !.deletedAt = at[3], !.isActive = active]]
  IN  <<db, s1, s2, s3>>

\* the userTenant.update of remove/restore finds no row: P2025
MembershipMissing(profiles, id) ==
  UserTenantRows(profiles[id].userId, profiles[id].tenantId) = {}

\* remove: the transaction and its catch block.  With no membership row the
\* second write throws P2025, which the catch answers with 404, unless the
\* storage failed at the first or at the second write, which is a 500
RemoveProfileResult(profiles, id, at, fault) ==
  LET db == ProfileDb(profiles)
  IN  IF MembershipMissing(profiles, id)
      THEN [status |-> IF fault \in {1, 2} THEN INTERNAL ELSE NOT_FOUND,
            db |-> db]
      ELSE [status |-> IF fault = 0 THEN OK ELSE INTERNAL,
            db |-> Transaction(ToggleProfileSteps(db, id, at, FALSE), fault)]

\* a mutant of RestoreProfileResult: the User row keeps its delete timestamp
RestoreProfileResultLeavesUser(profiles, id, fault) ==
  LET db == ProfileDb(profiles)
      steps == ToggleProfileSteps(db, id, Cleared, TRUE)
  IN  IF MembershipMissing(profiles, id)
      THEN [status |-> INTERNAL, db |-> db]
      ELSE [status |-> IF fault = 0 THEN OK ELSE INTERNAL,
            db |-> IF fault = 0 THEN [steps[4] EXCEPT !.users = db.users]
                   ELSE db]

\* restore: the transaction and its catch block, which answers every error
\* with a 500
RestoreProfileResult(profiles, id, fault) ==
  LET db == ProfileDb(profiles)
  IN  IF MembershipMissing(profiles, id)
      THEN [status |-> INTERNAL, db |-> db]
      ELSE [status |-> IF fault = 0 THEN OK ELSE INTERNAL,
            db |-> Transaction(ToggleProfileSteps(db, id, Cleared, TRUE), fault)]

\* an absent limit of findAll
NoLimit == 0 - 1

\* findMany({ where: { tenantId }, take: limit, skip: offset,
\* orderBy: { createdAt: 'desc' } }): the page of the rows of the tenant,
\* the newest first, as the set of its ids; an absent offset is 0
FindManyProfiles(profiles, tid, limit, offset) ==
  LET rows == {d \in DOMAIN profiles : profiles[d].tenantId = tid}
      newer(d) == Cardinality({e \in rows : e > d})
  IN  {d \in rows : /\ newer(d) >= offset
                    /\ limit = NoLimit \/ newer(d) < offset + limit}

(***************************************************************************)
(* The requests of the Doctor and Staff services.  The caller is the       *)
(* { id, tenantId } the controller takes from the token.  A handler awaits *)
(* its look-ups one after the other and then its transaction, so every     *)
(* await is a step and the steps of the requests in flight interleave.  A  *)
(* request is [svc, op, id, dto, uid, tid, row, pc, at, status, time]: row *)
(* is what the first look-up of findOne, update, remove or restore         *)
(* fetched, at the step at which the request returned, time the clock at   *)
(* the latest step of a request in flight (0 once it has returned): the    *)
(* synchronous code that follows an await, the arguments of the next       *)
(* storage call among it, runs at that time.  A transaction is one step:   *)
(* its writes are seen by the other requests when it commits.              *)
(***************************************************************************)
\* the callers: the admin of tenant 1, the admin of tenant 2, the doctor of
\* tenant 1, and the admin of tenant 2 with a token of tenant 1, in which
\* they have no membership
Callers == {<<1, 1>>, <<2, 2>>, <<3, 1>>, <<2, 1>>}

\* the ids asked for: the rows of the first clinic and one past them
EntityIds == {1, 2}

\* the number of Doctor and Staff requests of a behaviour
MaxRequests == 2

WriteProfileDb(db, isDoctor) ==
  /\ users' = db.users
  /\ userTenants' = db.userTenants
  /\ doctors' = IF isDoctor THEN db.profiles ELSE doctors
  /\ staffs' = IF isDoctor THEN staffs ELSE db.profiles

ReadFrame == UNCHANGED <<users, userTenants, staffVars>>

RequestFrame == UNCHANGED <<tenants, clinicVars, now, authVars, calls>>

\* a request is received
Received == calls' = IF calls < MaxCalls THEN calls + 1 ELSE calls

DoctorRoles == [create |-> {"ADMIN", "STAFF"},
                read |-> {"ADMIN", "STAFF", "NURSE", "DOCTOR"},
                update |-> {"ADMIN", "STAFF"}]

StaffRoles == [create |-> {"ADMIN"},
               read |-> {"ADMIN", "STAFF", "NURSE"},
               update |-> {"ADMIN"}]

RolesOf(svc) == IF svc = "Doctor" THEN DoctorRoles ELSE StaffRoles

\* Role.DOCTOR, Role.STAFF
NewRole(svc) == IF svc = "Doctor" THEN "DOCTOR" ELSE "STAFF"

\* the roles isAuthorizedInTenant is asked for by findOne, update, remove
\* and restore
AllowedRoles(svc, op) ==
  CASE op = "findOne" -> RolesOf(svc).read
    [] op = "update" -> RolesOf(svc).update
    [] OTHER -> {"ADMIN"}

\* what a look-up by id fetches when there is no such row
NoRow == [employeeCode |-> "", email |-> "", userId |-> 0, tenantId |-> 0,
          deletedAt |-> NULL]

\* the body of a request that has none
NoDto == [body |-> "none"]

\* the request returns (or throws): the response is the latest one
ProfileAnswers(p, status, id, data) ==
  /\ creates' = [creates EXCEPT ![p].at = creates[p].pc, ![p].pc = "done",
                                ![p].status = status, ![p].id = id,
                                ![p].time = 0]
  /\ last' = Response(creates[p].svc, creates[p].op, id, creates[p].uid,
                      creates[p].tid, status, data)

ProfileReturns(p, status) == ProfileAnswers(p, status, creates[p].id, {})

ProfileGoes(p, pc) ==
  /\ creates' = [creates EXCEPT ![p].pc = pc, ![p].time = now]
  /\ UNCHANGED last

\* a request arrives and awaits its first storage call: it returns with the
\* status, or goes on to pc when the status is 0
ProfileBegins(svc, op, id, dto, uid, tid, row, status, pc) ==
  /\ Len(creates) < MaxRequests
  /\ creates' = Append(creates,
       [svc |-> svc, op |-> op, id |-> id, dto |-> dto, uid |-> uid,
        tid |-> tid, row |-> row,
        pc |-> IF status = 0 THEN pc ELSE "done",
        at |-> IF status = 0 THEN "" ELSE "begin", status |-> status,
        time |-> IF status = 0 THEN now ELSE 0])
  /\ last' = IF status = 0 THEN last
             ELSE Response(svc, op, id, uid, tid, status, {})
  /\ Received
  /\ ReadFrame
  /\ UNCHANGED <<tenants, clinicVars, now, authVars>>

\* findUnique({ where: { id }, include: { user: true } }) as update reads it;
\* findOne, remove and restore read the profile row alone
FetchedRow(svc, id) ==
  IF id \notin DOMAIN Table(svc) THEN NoRow
  ELSE [employeeCode |-> Table(svc)[id].employeeCode,
        email |-> users[Table(svc)[id].userId].email,
        userId |-> Table(svc)[id].userId,
        tenantId |-> Table(svc)[id].tenantId,
        deletedAt |-> Table(svc)[id].deletedAt]

\* create: the e-mail pattern, then isAuthorizedInTenant
ProfileCreateBegin(svc, dto, uid, tid) ==
  ProfileBegins(svc, "create", 0, dto, uid, tid, NoRow,
                IF ~ValidEmailFormat(dto.email) THEN BAD_REQUEST
                ELSE IF ~isAuthorizedInTenant(uid, tid, RolesOf(svc).create)
                THEN FORBIDDEN
                ELSE 0,
                "tenant")

\* findAll: isAuthorizedInTenant
ProfileFindAllBegin(svc, uid, tid, limit, offset) ==
  ProfileBegins(svc, "findAll", 0, [limit |-> limit, offset |-> offset],
                uid, tid, NoRow,
                IF ~isAuthorizedInTenant(uid, tid, RolesOf(svc).read)
                THEN FORBIDDEN ELSE 0,
                "findMany")

\* findOne: findUnique({ where: { id } })
ProfileFindOneBegin(svc, id, uid, tid) ==
  ProfileBegins(svc, "findOne", id, NoDto, uid, tid, FetchedRow(svc, id),
                FetchProfileRejection(Table(svc), id, "findOne", tid),
                "authorize")

\* update: findUnique({ where: { id }, include: { user: true } })
ProfileUpdateBegin(svc, id, dto, uid, tid) ==
  ProfileBegins(svc, "update", id, dto, uid, tid, FetchedRow(svc, id),
                FetchProfileRejection(Table(svc), id, "update", tid),
                "authorize")

\* remove: findUnique({ where: { id } })
ProfileRemoveBegin(svc, id, uid, tid) ==
  ProfileBegins(svc, "remove", id, NoDto, uid, tid, FetchedRow(svc, id),
                FetchProfileRejection(Table(svc), id, "remove", tid),
                "authorize")

\* restore: findUnique({ where: { id } })
ProfileRestoreBegin(svc, id, uid, tid) ==
  ProfileBegins(svc, "restore", id, NoDto, uid, tid, FetchedRow(svc, id),
                FetchProfileRejection(Table(svc), id, "restore", tid),
                "authorize")

\* update: `dto.employeeCode && dto.employeeCode !== row.employeeCode`, the
\* condition under which the code is looked up
UpdateLooksUpCode(r) ==
  /\ "employeeCode" \in DOMAIN r.dto
  /\ r.dto.employeeCode # ""
  /\ r.dto.employeeCode # r.row.employeeCode

\* update: `dto.email && dto.email !== row.user.email`, the condition under
\* which the e-mail is looked up
UpdateLooksUpEmail(r) ==
  /\ "email" \in DOMAIN r.dto
  /\ r.dto.email # ""
  /\ r.dto.email # r.row.email

\* findOne, update, remove, restore: isAuthorizedInTenant on a row of the
\* token's tenant; findOne returns the fetched row, update goes to the
\* look-ups its body asks for, if any.  A look-up that throws (fault) ends
\* the request with a 500, here and in the steps below
ProfileAuthorize(p, fault) ==
  /\ p \in DOMAIN creates
  /\ creates[p].pc = "authorize"
  /\ LET r == creates[p]
         rejected == AuthorizeProfileRejection(AllowedRoles(r.svc, r.op),
                                               r.uid, r.tid)
     IN  IF fault THEN ProfileReturns(p, INTERNAL)
         ELSE IF rejected # 0 THEN ProfileReturns(p, rejected)
         ELSE IF r.op = "findOne" THEN ProfileReturns(p, OK)
         ELSE IF r.op = "update" /\ UpdateLooksUpCode(r)
         THEN ProfileGoes(p, "code")
         ELSE IF r.op = "update" /\ UpdateLooksUpEmail(r)
         THEN ProfileGoes(p, "user")
         ELSE ProfileGoes(p, "transaction")
  /\ ReadFrame
  /\ RequestFrame

\* findAll: findMany
ProfileFindMany(p, fault) ==
  /\ p \in DOMAIN creates
  /\ creates[p].pc = "findMany"
  /\ LET r == creates[p]
     IN  IF fault THEN ProfileReturns(p, INTERNAL)
         ELSE ProfileAnswers(p, OK, 0,
                             FindManyProfiles(Table(r.svc), r.tid, r.dto.limit,
                                              r.dto.offset))
  /\ ReadFrame
  /\ RequestFrame

\* create: tenant.findUnique({ where: { id: tenantId } })
ProfileFindTenant(p, fault) ==
  /\ p \in DOMAIN creates
  /\ creates[p].pc = "tenant"
  /\ IF fault THEN ProfileReturns(p, INTERNAL)
     ELSE IF creates[p].tid \notin DOMAIN tenants
     THEN ProfileReturns(p, NOT_FOUND)
     ELSE ProfileGoes(p, "user")
  /\ ReadFrame
  /\ RequestFrame

\* create, update: user.findUnique({ where: { email } }); an update comes
\* here only for an e-mail that differs from the fetched one
ProfileFindUser(p, fault) ==
  /\ p \in DOMAIN creates
  /\ creates[p].pc = "user"
  /\ LET r == creates[p]
     IN  IF fault THEN ProfileReturns(p, INTERNAL)
         ELSE IF r.op = "create"
         THEN IF UsersByEmail(r.dto.email) # {}
              THEN ProfileReturns(p, BAD_REQUEST)
              ELSE ProfileGoes(p, "code")
         ELSE IF \E u \in UsersByEmail(r.dto.email) : u # r.row.userId
              THEN ProfileReturns(p, BAD_REQUEST)
              ELSE ProfileGoes(p, "transaction")
  /\ ReadFrame
  /\ RequestFrame

\* create: findFirst({ where: { employeeCode, tenantId } }); update:
\* findFirst with deletedAt: null and id: { not: id }, to which an update
\* comes only for a code that differs from the fetched one, and from which
\* it goes to the look-up of the e-mail only if its body asks for it
ProfileFindCode(p, fault) ==
  /\ p \in DOMAIN creates
  /\ creates[p].pc = "code"
  /\ LET r == creates[p]
         profiles == Table(r.svc)
     IN  IF fault THEN ProfileReturns(p, INTERNAL)
         ELSE IF r.op = "create"
         THEN IF \E d \in DOMAIN profiles :
                   /\ profiles[d].employeeCode = r.dto.employeeCode
                   /\ profiles[d].tenantId = r.tid
              THEN ProfileReturns(p, BAD_REQUEST)
              ELSE ProfileGoes(p, "transaction")
         ELSE IF \E d \in DOMAIN profiles :
                   /\ profiles[d].employeeCode = r.dto.employeeCode
                   /\ profiles[d].tenantId = r.tid
                   /\ profiles[d].deletedAt = NULL
                   /\ d # r.id
              THEN ProfileReturns(p, BAD_REQUEST)
              ELSE IF UpdateLooksUpEmail(r) THEN ProfileGoes(p, "user")
              ELSE ProfileGoes(p, "transaction")
  /\ ReadFrame
  /\ RequestFrame

\* the storage failures of a transaction: none, or at its k-th write
ProfileFaults == 0 .. 3

\* create, update, remove, restore: $transaction and its catch block.  The
\* callback of remove evaluates new Date() before each of its three writes,
\* between the time the handler called $transaction and the commit
ProfileTransaction(p, fault) ==
  /\ p \in DOMAIN creates
  /\ creates[p].pc = "transaction"
  /\ LET r == creates[p]
         profiles == Table(r.svc)
     IN  \E at \in IF r.op = "remove" THEN Stamps(r.time, now) ELSE {Cleared} :
           LET c == CASE r.op = "create" ->
                         CreateProfileResult(profiles, NewRole(r.svc), r.tid,
                                             r.dto, fault)
                    [] r.op = "update" ->
                         UpdateProfileResult(profiles, r.id, r.dto, fault)
                    [] r.op = "remove" ->
                         RemoveProfileResult(profiles, r.id, at, fault)
                    [] r.op = "restore" ->
                         RestoreProfileResult(profiles, r.id, fault)
           IN  /\ WriteProfileDb(c.db, r.svc = "Doctor")
               /\ ProfileAnswers(p, c.status,
                                 IF c.status = CREATED THEN Len(profiles) + 1
                                 ELSE r.id, {})
  /\ RequestFrame

\* a step of a create, update, remove or restore in flight
ProfileStep ==
  \E p \in 1 .. MaxRequests :
     \/ \E fault \in BOOLEAN :
          \/ ProfileAuthorize(p, fault)
          \/ ProfileFindTenant(p, fault)
          \/ ProfileFindUser(p, fault)
          \/ ProfileFindCode(p, fault)
     \/ \E fault \in ProfileFaults : ProfileTransaction(p, fault)

\* time passes between requests
Tick ==
  /\ now < MaxNow
  /\ now' = now + 1
  /\ UNCHANGED <<users, tenants, userTenants, staffVars, clinicVars, last,
                 authVars, creates, calls>>

(***************************************************************************)
(* The clinical entity services: Patient, Visit, Operation, Prescription.  *)
(* A Visit, an Operation and a Prescription have no tenantId of their own: *)
(* their tenant is the tenant of the patient they lead to.  The handlers   *)
(* await their storage calls one after the other with no transaction, so   *)
(* every call is a step.  A request in flight is a record of `creates`     *)
(* like a Doctor or Staff request: row is what its look-ups fetched.  The  *)
(* record leaves `creates` when the request answers; `last` is the answer. *)
(***************************************************************************)
\* the tenant the checks of findOne/update/remove compare with the token's
OwnerTenant(svc, id) ==
  CASE svc = "Doctor" -> doctors[id].tenantId
    [] svc = "Staff" -> staffs[id].tenantId
    [] svc = "Patient" -> patients[id].tenantId
    [] svc = "Visit" -> patients[visits[id].patientId].tenantId
    [] svc = "Operation" -> patients[operations[id].patientId].tenantId
    [] svc = "Prescription" ->
         patients[visits[prescriptions[id].visitId].patientId].tenantId

\* prisma update({ data: dto }): the fields the dto names are written
Merge(row, dto) ==
  [f \in DOMAIN row |-> IF f \in DOMAIN dto THEN dto[f] ELSE row[f]]

\* a foreign key the dto names leads to a row (else the write throws)
ForeignKeysHold(dto) ==
  /\ "patientId" \in DOMAIN dto => dto.patientId \in DOMAIN patients
  /\ "doctorId" \in DOMAIN dto => dto.doctorId \in DOMAIN doctors
  /\ "surgeonId" \in DOMAIN dto => dto.surgeonId \in DOMAIN doctors

Max(S) == CHOOSE x \in S : \A y \in S : y <= x

\* billing.findFirst({ where: { patientId, type, deletedAt: null },
\* orderBy: { createdAt: 'desc' } }): 0 when there is none
MostRecentBilling(bills, patientId, type) ==
  LET found == {b \in DOMAIN bills :
                  /\ bills[b].patientId = patientId
                  /\ bills[b].type = type
                  /\ bills[b].deletedAt = NULL}
  IN  IF found = {} THEN 0 ELSE Max(found)

\* what a step of a clinical request leaves alone besides the clinical tables
ClinicFrame ==
  UNCHANGED <<users, tenants, userTenants, staffVars, now, authVars, calls>>

ReadRoles == {"ADMIN", "DOCTOR", "STAFF", "NURSE"}
WriteRoles == {"ADMIN", "DOCTOR"}

\* the membership test of a handler: isAuthorizedInTenant, or isAdminInTenant
\* for the removes of PatientsService and VisitsService
ClinicAuthorized(svc, op, uid, tid) ==
  IF svc \in {"Patient", "Visit"}
  THEN IF op = "remove" THEN isAdminInTenant(uid, tid)
       ELSE isAuthorizedInTenantAnyRole(uid, tid)
  ELSE isAuthorizedInTenant(uid, tid,
         CASE op \in {"findAll", "findOne"} -> ReadRoles
           [] op \in {"create", "update"} -> WriteRoles
           [] op = "remove" -> {"ADMIN"})

\* the rows of findAll: of the caller's tenant, not soft-deleted, their
\* patient not soft-deleted, narrowed by the optional filter (0: none)
VisitsOfTenant(tid, patientId) ==
  {v \in DOMAIN visits :
     /\ visits[v].deletedAt = NULL
     /\ patients[visits[v].patientId].tenantId = tid
     /\ patients[visits[v].patientId].deletedAt = NULL
     /\ patientId # 0 => visits[v].patientId = patientId}

OperationsOfTenant(tid, patientId) ==
  {o \in DOMAIN operations :
     /\ operations[o].deletedAt = NULL
     /\ patients[operations[o].patientId].tenantId = tid
     /\ patients[operations[o].patientId].deletedAt = NULL
     /\ patientId # 0 => operations[o].patientId = patientId}

\* with a visitId the visit's own deletedAt is not looked at; with none the
\* prescription's own deletedAt is not looked at
PrescriptionsOfTenant(tid, patientId, visitId) ==
  {r \in DOMAIN prescriptions :
     LET v == visits[prescriptions[r].visitId]
     IN  /\ patients[v.patientId].tenantId = tid
         /\ patients[v.patientId].deletedAt = NULL
         /\ IF visitId # 0
            THEN /\ prescriptions[r].visitId = visitId
                 /\ prescriptions[r].deletedAt = NULL
            ELSE /\ v.deletedAt = NULL
                 /\ patientId # 0 => v.patientId = patientId}

\* findMany of findAll, as the set of the ids of its rows
FindManyClinic(svc, tid, patientId, visitId) ==
  CASE svc = "Patient" ->
         {p \in DOMAIN patients :
            patients[p].tenantId = tid /\ patients[p].deletedAt = NULL}
    [] svc = "Visit" -> VisitsOfTenant(tid, patientId)
    [] svc = "Operation" -> OperationsOfTenant(tid, patientId)
    [] svc = "Prescription" -> PrescriptionsOfTenant(tid, patientId, visitId)

\* what a look-up by id fetches when there is no such row
NoClinicRow == [tenantId |-> 0, patientId |-> 0, billing |-> 0]

\* findUnique({ where: { id }, include: { patient: true } }): the tenant of
\* the patient the row leads to and that patient; billing is the row that
\* billing.findFirst fetches later
ClinicFetchedRow(svc, id) ==
  IF id \notin DOMAIN Table(svc) THEN NoClinicRow
  ELSE [tenantId |-> OwnerTenant(svc, id),
        patientId |-> CASE svc = "Patient" -> id
                        [] svc = "Visit" -> visits[id].patientId
                        [] svc = "Operation" -> operations[id].patientId
                        [] svc = "Prescription" ->
                             visits[prescriptions[id].visitId].patientId,
        billing |-> 0]

\* the requests that have not returned
InFlight == {p \in DOMAIN creates : creates[p].pc # "done"}

\* seq without its p-th element
Without(seq, p) ==
  [i \in 1 .. Len(seq) - 1 |-> IF i < p THEN seq[i] ELSE seq[i + 1]]

\* the request returns: it is no longer in flight and its response is the
\* latest one
ClinicAnswers(p, status, id, data) ==
  /\ creates' = Without(creates, p)
  /\ last' = Response(creates[p].svc, creates[p].op, id, creates[p].uid,
                      creates[p].tid, status, data)

ClinicReturns(p, status) == ClinicAnswers(p, status, creates[p].id, {})

\* the step is one in which request p returns
Answers(p) == p \in DOMAIN creates /\ creates' = Without(creates, p)

\* a request arrives and awaits its first storage call: it returns with the
\* status, or goes on to pc when the status is 0
ClinicBegins(svc, op, id, dto, uid, tid, row, status, pc) ==
  /\ Cardinality(InFlight) < MaxRequests
  /\ IF status = 0
     THEN /\ creates' = Append(creates,
               [svc |-> svc, op |-> op, id |-> id, dto |-> dto, uid |-> uid,
                tid |-> tid, row |-> row, pc |-> pc, at |-> "", status |-> 0,
                time |-> now])
          /\ UNCHANGED last
     ELSE /\ last' = Response(svc, op, id, uid, tid, status, {})
          /\ UNCHANGED creates
  /\ Received
  /\ UNCHANGED clinicVars
  /\ UNCHANGED <<users, tenants, userTenants, staffVars, now, authVars>>

\* findAll: isAuthorizedInTenant; the filters are 0 when absent
ClinicFindAllBegin(svc, uid, tid, patientId, visitId) ==
  ClinicBegins(svc, "findAll", 0, [patientId |-> patientId, visitId |-> visitId],
               uid, tid, NoClinicRow,
               IF ~ClinicAuthorized(svc, "findAll", uid, tid) THEN FORBIDDEN
               ELSE 0,
               "rows")

\* findAll: findMany.  A look-up that throws (fault) ends the request with
\* a 500, here and in the steps below
ClinicFindMany(p, fault) ==
  /\ p \in DOMAIN creates
  /\ creates[p].pc = "rows"
  /\ LET r == creates[p]
     IN  IF fault THEN ClinicReturns(p, INTERNAL)
         ELSE ClinicAnswers(p, OK, 0,
                            FindManyClinic(r.svc, r.tid, r.dto.patientId,
                                           r.dto.visitId))
  /\ UNCHANGED clinicVars
  /\ ClinicFrame

\* findOne, update, remove: findUnique({ where: { id } }) and the tests of
\* the row it fetched: it is there and not soft-deleted, and its tenant is
\* the tenant of the token (the left operand of ||, before the membership
\* is awaited)
ClinicFetch(svc, op, id, dto, uid, tid) ==
  ClinicBegins(svc, op, id, dto, uid, tid, ClinicFetchedRow(svc, id),
               IF NotFoundOrDeleted(Table(svc), id) THEN NOT_FOUND
               ELSE IF OwnerTenant(svc, id) # tid THEN FORBIDDEN
               ELSE 0,
               "member")

ClinicFindOneBegin(svc, id, uid, tid) ==
  ClinicFetch(svc, "findOne", id, NoDto, uid, tid)

ClinicUpdateBegin(svc, id, dto, uid, tid) ==
  ClinicFetch(svc, "update", id, dto, uid, tid)

ClinicRemoveBegin(svc, id, uid, tid) ==
  ClinicFetch(svc, "remove", id, NoDto, uid, tid)

\* update: what the handler validates in the dto after the membership test:
\* a consultation fee is not negative, an operation fee is positive, a list
\* of medications is not empty
UpdateRejected(svc, dto) ==
  CASE svc = "Visit" ->
         "consultationFee" \in DOMAIN dto /\ dto.consultationFee < 0
    [] svc = "Operation" -> "fee" \in DOMAIN dto /\ dto.fee <= 0
    [] svc = "Prescription" ->
         "medications" \in DOMAIN dto /\ dto.medications = <<>>
    [] OTHER -> FALSE

\* findOne, update, remove: userTenant.findUnique and the test of the
\* membership; findOne returns the fetched row, update validates its dto
ClinicAuthorize(p, fault) ==
  /\ p \in DOMAIN creates
  /\ creates[p].pc = "member"
  /\ LET r == creates[p]
     IN  IF fault THEN ClinicReturns(p, INTERNAL)
         ELSE IF ~ClinicAuthorized(r.svc, r.op, r.uid, r.tid)
         THEN ClinicReturns(p, FORBIDDEN)
         ELSE IF r.op = "findOne" THEN ClinicReturns(p, OK)
         ELSE IF r.op = "update" /\ UpdateRejected(r.svc, r.dto)
         THEN ClinicReturns(p, BAD_REQUEST)
         ELSE ProfileGoes(p, "write")
  /\ UNCHANGED clinicVars
  /\ ClinicFrame

\* the data of update: PrescriptionsService writes the medications alone
UpdateData(svc, dto) ==
  IF svc = "Prescription"
  THEN [f \in DOMAIN dto \cap {"medications"} |-> dto[f]]
  ELSE dto

\* the table of the service becomes t
WriteClinicTable(svc, t) ==
  /\ patients' = IF svc = "Patient" THEN t ELSE patients
  /\ visits' = IF svc = "Visit" THEN t ELSE visits
  /\ operations' = IF svc = "Operation" THEN t ELSE operations
  /\ prescriptions' = IF svc = "Prescription" THEN t ELSE prescriptions

\* update: update({ where: { id }, data }); remove: update({ where: { id },
\* data: { deletedAt: new Date() } }), the date being that of the call,
\* which the handler makes when its membership look-up has answered.  The
\* write throws when the storage fails or a foreign key of the data leads
\* nowhere; OperationsService goes on to the billing of the operation
ClinicWrite(p, fault) ==
  /\ p \in DOMAIN creates
  /\ creates[p].pc = "write"
  /\ LET r == creates[p]
         table == Table(r.svc)
         thrown == fault \/ (r.op = "update" /\ ~ForeignKeysHold(r.dto))
         written == IF r.op = "remove" THEN SetDeletedAt(table, r.id, r.time)
                    ELSE [table EXCEPT
                            ![r.id] = Merge(@, UpdateData(r.svc, r.dto))]
     IN  /\ WriteClinicTable(r.svc, IF thrown THEN table ELSE written)
         /\ IF thrown THEN ClinicReturns(p, INTERNAL)
            ELSE IF /\ r.svc = "Operation"
                    /\ r.op = "remove" \/ "fee" \in DOMAIN r.dto
            THEN ProfileGoes(p, "billingFind")
            ELSE ClinicReturns(p, OK)
  /\ UNCHANGED billings
  /\ ClinicFrame

\* Operation.update with a fee, Operation.remove: billing.findFirst for the
\* patient the fetched operation had; when it throws the catch block
\* answers 500 and the write of the operation stays
OperationsFindBilling(p, fault) ==
  /\ p \in DOMAIN creates
  /\ creates[p].pc = "billingFind"
  /\ LET b == MostRecentBilling(billings, creates[p].row.patientId, "OPERATION")
     IN  IF fault THEN ClinicReturns(p, INTERNAL)
         ELSE IF b = 0 THEN ClinicReturns(p, OK)
         ELSE /\ creates' = [creates EXCEPT ![p].row.billing = b,
                                            ![p].pc = "billingWrite",
                                            ![p].time = now]
              /\ UNCHANGED last
  /\ UNCHANGED clinicVars
  /\ ClinicFrame

\* Operation.update: billing.update({ data: { amount: fee } });
\* Operation.remove: billing.update({ data: { deletedAt: new Date() } }), the
\* date being that of the call, made when billing.findFirst has answered
OperationsUpdateBilling(p, fault) ==
  /\ p \in DOMAIN creates
  /\ creates[p].pc = "billingWrite"
  /\ LET r == creates[p]
     IN  IF fault THEN ClinicReturns(p, INTERNAL) /\ UNCHANGED billings
         ELSE /\ billings' = IF r.op = "remove"
                             THEN SetDeletedAt(billings, r.row.billing, r.time)
                             ELSE [billings EXCEPT
                                     ![r.row.billing].amount = r.dto.fee]
              /\ ClinicReturns(p, OK)
  /\ UNCHANGED <<patients, visits, operations, prescriptions>>
  /\ ClinicFrame

(***************************************************************************)
(* The clinic after two signups (tenants 1 and 2 with their admins, users  *)
(* 1 and 2), one Doctor.create and one Staff.create in tenant 1.           *)
(***************************************************************************)
TwoTenants ==
  <<[code |-> "AAA111", name |-> "Clinic A"],
    [code |-> "BBB222", name |-> "Clinic B"]>>

StaffedUsers ==
  <<[email |-> "a1@x.io", role |-> "ADMIN", deletedAt |-> NULL],
    [email |-> "a2@x.io", role |-> "ADMIN", deletedAt |-> NULL],
    [email |-> "d1@x.io", role |-> "DOCTOR", deletedAt |-> NULL],
    [email |-> "s1@x.io", role |-> "STAFF", deletedAt |-> NULL]>>

StaffedMemberships ==
  <<[userId |-> 1, tenantId |-> 1, role |-> "ADMIN", deletedAt |-> NULL],
    [userId |-> 2, tenantId |-> 2, role |-> "ADMIN", deletedAt |-> NULL],
    [userId |-> 3, tenantId |-> 1, role |-> "DOCTOR", deletedAt |-> NULL],
    [userId |-> 4, tenantId |-> 1, role |-> "STAFF", deletedAt |-> NULL]>>

FirstProfile(userId) ==
  <<[userId |-> userId, tenantId |-> 1, employeeCode |-> "E1",
     isActive |-> TRUE, deletedAt |-> NULL]>>

\* patient 1 of tenant 1 was registered with doctor 1 by the staff user 4 and
\* had an operation and a prescription; patient 2 of tenant 2 was registered
\* with no doctor by the admin user 2, so that its first visit was not created
FirstPatients ==
  <<[tenantId |-> 1, doctorId |-> 1, registrationFee |-> 30, noOfVisits |-> 1,
     deletedAt |-> NULL],
    [tenantId |-> 2, doctorId |-> NULL, registrationFee |-> 30, noOfVisits |-> 0,
     deletedAt |-> NULL]>>

FirstVisits ==
  <<[patientId |-> 1, doctorId |-> 1, staffId |-> 4, consultationFee |-> 0,
     deletedAt |-> NULL]>>

FirstBillings ==
  <<[patientId |-> 1, type |-> "REGISTRATION", amount |-> 30, deletedAt |-> NULL],
    [patientId |-> 2, type |-> "REGISTRATION", amount |-> 30, deletedAt |-> NULL],
    [patientId |-> 1, type |-> "OPERATION", amount |-> 100, deletedAt |-> NULL]>>

FirstOperations ==
  <<[patientId |-> 1, surgeonId |-> 1, fee |-> 100, deletedAt |-> NULL]>>

FirstPrescriptions ==
  <<[visitId |-> 1, medications |-> <<"m1">>, deletedAt |-> NULL]>>

NoAuthActivity ==
  /\ signups = <<>>
  /\ loginResult = NoLogin
  /\ tokens = {}

InitStaffed ==
  /\ tenants = TwoTenants
  /\ users = StaffedUsers
  /\ userTenants = StaffedMemberships
  /\ doctors = FirstProfile(3)
  /\ staffs = FirstProfile(4)
  /\ patients = FirstPatients
  /\ visits = FirstVisits
  /\ billings = FirstBillings
  /\ operations = FirstOperations
  /\ prescriptions = FirstPrescriptions
  /\ NoAuthActivity
  /\ creates = <<>>
  /\ now = 1
  /\ last = NoResponse
  /\ calls = 0

\* the limit and the offset of a findAll
Pages == {<<NoLimit, 0>>, <<1, 1>>}

\* the admin of tenant 1, the admin of tenant 2, and the latter with a token
\* of tenant 1, in which they have no membership, who ask for row 1
ClinicReaders == {<<1, 1>>, <<2, 2>>, <<2, 1>>}

\* the filters <<patientId, visitId>> of a findAll
Filters(svc) ==
  CASE svc = "Patient" -> {<<0, 0>>}
    [] svc = "Prescription" -> {<<0, 0>>, <<0, 1>>}
    [] OTHER -> {<<0, 0>>, <<2, 0>>}

\* the bodies of an update
UpdateDtos(svc) ==
  CASE svc = "Patient" -> {[registrationFee |-> 50], [doctorId |-> 2]}
    [] svc = "Visit" -> {[consultationFee |-> 0 - 1], [patientId |-> 2]}
    [] svc = "Operation" -> {[fee |-> 0], [fee |-> 150]}
    [] svc = "Prescription" -> {[medications |-> <<>>],
                                [medications |-> <<"m2">>]}

(***************************************************************************)
(* The lifecycle of a profile: the admin of tenant 1 creates a doctor and  *)
(* a staff member, and activates, removes and restores the first ones,     *)
(* with requests that overlap and transactions that fail.                  *)
(***************************************************************************)
NextProfiles ==
  \/ Tick
  \/ \E svc \in {"Doctor", "Staff"} :
       \/ ProfileCreateBegin(svc, [email |-> "new@x.io", employeeCode |-> "E2"],
                             1, 1)
       \/ ProfileUpdateBegin(svc, 1, [isActive |-> TRUE], 1, 1)
       \/ ProfileRemoveBegin(svc, 1, 1, 1)
       \/ ProfileRestoreBegin(svc, 1, 1, 1)
  \/ ProfileStep

SpecProfiles == InitStaffed /\ [][NextProfiles]_vars

(***************************************************************************)
(* Signup.  AuthService.signup awaits its storage calls one after the      *)
(* other with no transaction around them, so every call is a step of its   *)
(* own and the steps of two signups interleave.  A signup is               *)
(* [email, tenantName, pc, userId, code, tenantId, status]; userId and     *)
(* tenantId are the rows it has inserted (0: none).                        *)
(***************************************************************************)
\* the number of signups of a behaviour
MaxSignups == 2

SignupDtos ==
  {[email |-> "n1@x.io", tenantName |-> "Clinic N"],
   [email |-> "n2@x.io", tenantName |-> "Clinic M"],
   [email |-> "a1@x.io", tenantName |-> "Clinic N"],
   [email |-> "n1@x.io", tenantName |-> ""],
   [email |-> "", tenantName |-> "Clinic N"]}

\* the codes nanoid(6).toUpperCase() may draw
DrawnCodes == {"AAA111", "NEW001"}

\* a mutant of TenantsByCode: the look-up of the drawn code finds nothing
TenantsByCodeNone(code) == {}

\* prisma.tenant.findUnique({ where: { code: tenantCode } })
TenantsByCode(code) == {t \in DOMAIN tenants : tenants[t].code = code}

SignupFrame ==
  UNCHANGED <<staffVars, clinicVars, now, last, loginResult, tokens, creates,
              calls>>

\* the signup returns (or the controller throws) with this status
SignupReturns(p, status) ==
  signups' = [signups EXCEPT ![p].pc = "done", ![p].status = status]

\* the controller's and the service's checks of the body; a
\* BadRequestException thrown inside the try block is caught as a generic error
SignupBegin(dto) ==
  /\ Len(signups) < MaxSignups
  /\ LET checked == IF dto.email = "" THEN BAD_REQUEST
                    ELSE IF dto.tenantName = "" THEN INTERNAL
                    ELSE 0
     IN  signups' = Append(signups,
           [email |-> dto.email, tenantName |-> dto.tenantName,
            pc |-> IF checked = 0 THEN "findUser" ELSE "done",
            userId |-> 0, code |-> "", tenantId |-> 0, status |-> checked])
  /\ UNCHANGED <<users, tenants, userTenants>>
  /\ SignupFrame

\* user.findUnique({ where: { email } })
SignupFindUser(p, fault) ==
  /\ p \in DOMAIN signups
  /\ signups[p].pc = "findUser"
  /\ IF fault THEN SignupReturns(p, INTERNAL)
     ELSE IF UsersByEmail(signups[p].email) # {} THEN SignupReturns(p, CONFLICT)
     ELSE signups' = [signups EXCEPT ![p].pc = "createUser"]
  /\ UNCHANGED <<users, tenants, userTenants>>
  /\ SignupFrame

\* user.create: the unique e-mail may have been taken since the lookup
SignupCreateUser(p, fault) ==
  /\ p \in DOMAIN signups
  /\ signups[p].pc = "createUser"
  /\ IF fault THEN SignupReturns(p, INTERNAL) /\ UNCHANGED users
     ELSE IF UsersByEmail(signups[p].email) # {}
     THEN SignupReturns(p, BAD_REQUEST) /\ UNCHANGED users
     ELSE /\ users' = Append(users, [email |-> signups[p].email,
                                     role |-> "ADMIN", deletedAt |-> NULL])
          /\ signups' = [signups EXCEPT ![p].pc = "drawCode",
                                        ![p].userId = Len(users) + 1]
  /\ UNCHANGED <<tenants, userTenants>>
  /\ SignupFrame

\* one round of the loop: draw a code and look it up; a taken code is drawn again
SignupDrawCode(p, code, fault) ==
  /\ p \in DOMAIN signups
  /\ signups[p].pc = "drawCode"
  /\ IF fault THEN SignupReturns(p, INTERNAL)
     ELSE IF TenantsByCode(code) # {} THEN UNCHANGED signups
     ELSE signups' = [signups EXCEPT ![p].pc = "createTenant", ![p].code = code]
  /\ UNCHANGED <<users, tenants, userTenants>>
  /\ SignupFrame

\* tenant.create: the unique code may have been taken since the lookup; that
\* constraint is none of the two the catch block names
SignupCreateTenant(p, fault) ==
  /\ p \in DOMAIN signups
  /\ signups[p].pc = "createTenant"
  /\ IF fault \/ TenantsByCode(signups[p].code) # {}
     THEN SignupReturns(p, INTERNAL) /\ UNCHANGED tenants
     ELSE /\ tenants' = Append(tenants, [code |-> signups[p].code,
                                         name |-> signups[p].tenantName])
          /\ signups' = [signups EXCEPT ![p].pc = "link",
                                        ![p].tenantId = Len(tenants) + 1]
  /\ UNCHANGED <<users, userTenants>>
  /\ SignupFrame

\* userTenant.create
SignupLink(p, fault) ==
  /\ p \in DOMAIN signups
  /\ signups[p].pc = "link"
  /\ IF fault \/ UserTenantRows(signups[p].userId, signups[p].tenantId) # {}
     THEN /\ SignupReturns(p, IF fault THEN INTERNAL ELSE BAD_REQUEST)
          /\ UNCHANGED userTenants
     ELSE /\ userTenants' = Append(userTenants,
                              [userId |-> signups[p].userId,
                               tenantId |-> signups[p].tenantId,
                               role |-> "ADMIN", deletedAt |-> NULL])
          /\ SignupReturns(p, CREATED)
  /\ UNCHANGED <<users, tenants>>
  /\ SignupFrame

NextSignup ==
  \/ \E dto \in SignupDtos : SignupBegin(dto)
  \/ \E p \in 1 .. MaxSignups, fault \in BOOLEAN :
       \/ SignupFindUser(p, fault)
       \/ SignupCreateUser(p, fault)
       \/ \E code \in DrawnCodes : SignupDrawCode(p, code, fault)
       \/ SignupCreateTenant(p, fault)
       \/ SignupLink(p, fault)

SpecSignup == InitStaffed /\ [][NextSignup]_vars

\* C5: a signup that has returned a failure has left no User row and no
\* Tenant row of its own
SignupAtomic ==
  \A p \in DOMAIN signups :
     (signups[p].pc = "done" /\ signups[p].status # CREATED) =>
        /\ signups[p].userId \notin DOMAIN users
        /\ signups[p].tenantId \notin DOMAIN tenants

(***************************************************************************)
(* Login.  AuthController.login: validateUser, then login with the         *)
(* optional tenant code.  Both only read the storage; the tables are drawn *)
(* in the initial state, a user with several memberships among them.       *)
(***************************************************************************)
\* what bcrypt.compare accepts for the user: the password the hash was made of
StoredPassword(u) == <<"pw", u>>

\* userTenant.findMany({ where: { userId }, include: { tenant: true } })
MembershipsOf(userId) == SelectSeq(userTenants, LAMBDA r : r.userId = userId)

\* validateUser up to bcrypt.compare: user.findUnique({ where: { email } })
\* and the comparison of the password; 0 when it throws
UserWithPassword(email, password) ==
  LET found == UsersByEmail(email)
      u == CHOOSE x \in found : TRUE
  IN  IF found = {} THEN 0
      ELSE IF password # StoredPassword(u) THEN 0
      ELSE u

\* validateUser when no write comes between its two look-ups: status 0 when
\* the user and its memberships are returned
validateUser(email, password) ==
  LET u == UserWithPassword(email, password)
      rejected(status) == [status |-> status, user |-> 0, userTenants |-> <<>>]
  IN  IF u = 0 THEN rejected(UNAUTHORIZED)
      ELSE IF MembershipsOf(u) = <<>> THEN rejected(BAD_REQUEST)
      ELSE [status |-> 0, user |-> u, userTenants |-> MembershipsOf(u)]

TenantInfo(t) == [id |-> t, name |-> tenants[t].name, code |-> tenants[t].code]

Min(S) == CHOOSE x \in S : \A y \in S : x <= y

\* userTenants.find(t => t.tenant.code === tenantCode)?.tenant; 0 when none
TenantWithCode(memberships, tenantCode) ==
  LET hits == {i \in DOMAIN memberships :
                 tenants[memberships[i].tenantId].code = tenantCode}
  IN  IF hits = {} THEN 0 ELSE memberships[Min(hits)].tenantId

LoginFailed(status) ==
  [status |-> status, isMultiTenant |-> FALSE, data |-> <<>>, token |-> NoToken]

\* a mutant of LoginSucceeded: the role claim is that of the first user
LoginSucceededFirstRole(user, tenant) ==
  [status |-> OK, isMultiTenant |-> FALSE, data |-> <<TenantInfo(tenant)>>,
   token |-> [email |-> user.email, id |-> user.id,
              role |-> users[1].role, tenantId |-> tenant]]

\* the payload login signs: e-mail, id and role of the user object that
\* validateUser returned, and the tenant
LoginSucceeded(user, tenant) ==
  [status |-> OK, isMultiTenant |-> FALSE, data |-> <<TenantInfo(tenant)>>,
   token |-> [email |-> user.email, id |-> user.id,
              role |-> user.role, tenantId |-> tenant]]

\* a mutant of login: the tenant code is looked up among all tenants
loginAnyTenant(user, memberships, tenantCode) ==
  LET coded == {t \in DOMAIN tenants : tenants[t].code = tenantCode}
  IN  IF tenantCode # ""
      THEN IF coded = {} THEN LoginFailed(BAD_REQUEST)
           ELSE LoginSucceeded(user, Min(coded))
      ELSE IF Len(memberships) = 1
      THEN LoginSucceeded(user, memberships[1].tenantId)
      ELSE IF Len(memberships) > 1
      THEN [status |-> OK, isMultiTenant |-> TRUE,
            data |-> [i \in DOMAIN memberships |->
                        TenantInfo(memberships[i].tenantId)],
            token |-> NoToken]
      ELSE LoginFailed(BAD_REQUEST)

\* a mutant of login: with no tenant code the first membership is taken
loginFirstMembership(user, memberships, tenantCode) ==
  IF tenantCode # ""
  THEN IF TenantWithCode(memberships, tenantCode) = 0
       THEN LoginFailed(BAD_REQUEST)
       ELSE LoginSucceeded(user, TenantWithCode(memberships, tenantCode))
  ELSE IF Len(memberships) >= 1
  THEN LoginSucceeded(user, memberships[1].tenantId)
  ELSE LoginFailed(BAD_REQUEST)

\* login: an empty tenant code is no tenant code
login(user, memberships, tenantCode) ==
  IF tenantCode # ""
  THEN IF TenantWithCode(memberships, tenantCode) = 0
       THEN LoginFailed(BAD_REQUEST)
       ELSE LoginSucceeded(user, TenantWithCode(memberships, tenantCode))
  ELSE IF Len(memberships) = 1
  THEN LoginSucceeded(user, memberships[1].tenantId)
  ELSE IF Len(memberships) > 1
  THEN [status |-> OK, isMultiTenant |-> TRUE,
        data |-> [i \in DOMAIN memberships |->
                    TenantInfo(memberships[i].tenantId)],
        token |-> NoToken]
  ELSE LoginFailed(BAD_REQUEST)

LoginFrame ==
  UNCHANGED <<users, tenants, userTenants, staffVars, clinicVars, now, last,
              signups, creates, calls>>

\* the login answers
LoginReturns(r) ==
  /\ loginResult' = [loginResult EXCEPT
                       !.pc = "done", !.status = r.status,
                       !.isMultiTenant = r.isMultiTenant, !.data = r.data,
                       !.token = r.token]
  /\ tokens' = IF r.token = NoToken THEN tokens ELSE tokens \cup {r.token}

\* POST /auth/login arrives: the controller wants an e-mail and a password,
\* then validateUser awaits user.findUnique and bcrypt.compare; a
\* user.findUnique that throws (fault) ends the request with a 500, no catch
\* being around it.  A login begins when the login before it has answered
LoginBegin(email, password, tenantCode, fault) ==
  /\ loginResult.pc = "done"
  /\ LET u == UserWithPassword(email, password)
         rejected == IF email = "" \/ password = <<>> THEN BAD_REQUEST
                     ELSE IF fault THEN INTERNAL
                     ELSE IF u = 0 THEN UNAUTHORIZED
                     ELSE 0
     IN  /\ loginResult' =
              [email |-> email, password |-> password, tenantCode |-> tenantCode,
               listed |-> IF loginResult.isMultiTenant /\ loginResult.email = email
                          THEN loginResult.data ELSE <<>>,
               pc |-> IF rejected = 0 THEN "memberships" ELSE "done",
               user |-> IF rejected = 0
                        THEN [id |-> u, email |-> users[u].email,
                              role |-> users[u].role]
                        ELSE NoUser,
               status |-> rejected, isMultiTenant |-> FALSE, data |-> <<>>,
               token |-> NoToken]
         /\ UNCHANGED tokens
  /\ LoginFrame

\* validateUser awaits userTenant.findMany, which ends the request with a
\* 500 when it throws (fault); login follows with no further storage call
LoginFindMemberships(fault) ==
  /\ loginResult.pc = "memberships"
  /\ LET memberships == MembershipsOf(loginResult.user.id)
     IN  LoginReturns(IF fault THEN LoginFailed(INTERNAL)
                      ELSE IF memberships = <<>> THEN LoginFailed(BAD_REQUEST)
                      ELSE login(loginResult.user, memberships,
                                 loginResult.tenantCode))
  /\ LoginFrame

ThreeTenants ==
  <<[code |-> "AAA111", name |-> "Clinic A"],
    [code |-> "BBB222", name |-> "Clinic B"],
    [code |-> "CCC333", name |-> "Clinic C"]>>

LoginUsers ==
  <<[email |-> "u1@x.io", role |-> "ADMIN", deletedAt |-> NULL],
    [email |-> "u2@x.io", role |-> "DOCTOR", deletedAt |-> NULL]>>

\* the memberships a table is drawn from; the pair (userId, tenantId) is unique
MembershipPool ==
  <<[userId |-> 1, tenantId |-> 1, role |-> "ADMIN", deletedAt |-> NULL],
    [userId |-> 2, tenantId |-> 2, role |-> "DOCTOR", deletedAt |-> NULL],
    [userId |-> 1, tenantId |-> 2, role |-> "ADMIN", deletedAt |-> NULL],
    [userId |-> 1, tenantId |-> 3, role |-> "ADMIN", deletedAt |-> 1],
    [userId |-> 2, tenantId |-> 1, role |-> "DOCTOR", deletedAt |-> NULL]>>

\* the rows of seq at the positions in S, in the order of seq
RECURSIVE Pick(_, _)
Pick(seq, S) ==
  IF seq = <<>> THEN <<>>
  ELSE LET rest == Pick(Tail(seq), {i - 1 : i \in S \ {1}})
       IN  IF 1 \in S THEN <<Head(seq)>> \o rest ELSE rest

LoginEmails == {"u1@x.io", "u2@x.io", "nobody@x.io", ""}
LoginPasswords == {<<"pw", 1>>, <<"pw", 2>>, <<>>}
LoginCodes == {"", "AAA111", "BBB222", "CCC333", "aaa111", "ZZZ999"}

InitLogin ==
  /\ tenants = ThreeTenants
  /\ users = LoginUsers
  /\ \E S \in SUBSET DOMAIN MembershipPool : userTenants = Pick(MembershipPool, S)
  /\ doctors = <<>>
  /\ staffs = <<>>
  /\ patients = <<>>
  /\ visits = <<>>
  /\ billings = <<>>
  /\ operations = <<>>
  /\ prescriptions = <<>>
  /\ NoAuthActivity
  /\ creates = <<>>
  /\ now = 1
  /\ last = NoResponse
  /\ calls = 0

NextLogin ==
  \/ \E email \in LoginEmails, password \in LoginPasswords,
        tenantCode \in LoginCodes, fault \in BOOLEAN :
       LoginBegin(email, password, tenantCode, fault)
  \/ \E fault \in BOOLEAN : LoginFindMemberships(fault)

SpecLogin == InitLogin /\ [][NextLogin]_vars

\* the credentials of the latest login were accepted by validateUser, whose
\* look-ups returned
Validated ==
  /\ loginResult # NoLogin
  /\ loginResult.pc = "done"
  /\ loginResult.status # INTERNAL
  /\ loginResult.email # "" /\ loginResult.password # <<>>
  /\ validateUser(loginResult.email, loginResult.password).status = 0

ValidatedUser == validateUser(loginResult.email, loginResult.password).user

\* the answer to a validated user with two or more memberships and no tenant
\* code: the list of the tenants of the memberships, and no token
MultiTenantAnswer ==
  (Validated /\ loginResult.tenantCode = ""
     /\ Len(MembershipsOf(ValidatedUser)) >= 2) =>
    /\ loginResult.status = OK
    /\ loginResult.isMultiTenant
    /\ loginResult.token = NoToken
    /\ Len(loginResult.data) = Len(MembershipsOf(ValidatedUser))
    /\ {loginResult.data[i] : i \in DOMAIN loginResult.data}
         = {TenantInfo(userTenants[m].tenantId) :
              m \in {k \in DOMAIN userTenants :
                       userTenants[k].userId = ValidatedUser}}

\* C9: a validated user (the look-ups of validateUser returned) with
\* memberships in two or more tenants and no tenant code gets isMultiTenant with the list of exactly those tenants and no token,
\* and the login that follows with the code of a listed tenant gets a token
\* whose tenantId is the id of that tenant
LoginDisambiguation ==
  [][ /\ MultiTenantAnswer'
      /\ \A i \in DOMAIN loginResult.listed :
           ( /\ LoginFindMemberships(FALSE)
             /\ Validated'
             /\ loginResult.tenantCode = loginResult.listed[i].code )
           => /\ loginResult'.status = OK
              /\ loginResult'.token.tenantId = loginResult.listed[i].id
              /\ loginResult'.token \in tokens' ]_vars

SelectedTenantWitness ==
  /\ loginResult.listed # <<>>
  /\ loginResult.pc = "done"
  /\ loginResult.tenantCode = "BBB222"
  /\ Len(MembershipsOf(1)) >= 2
  /\ loginResult.token.id = 1
  /\ loginResult.token.tenantId = 2

\* C10: a token is issued only for a tenant of a UserTenant row of the
\* validated user: a tenant code of none of the user's memberships answers 400
\* with no token, no code and one membership gives that membership's tenant,
\* and a rejected login issues no token, a login whose look-up throws (500)
\* among them
LoginTokenOnlyForMembership ==
  /\ \A t \in tokens :
       /\ UserTenantRows(t.id, t.tenantId) # {}
       /\ users[t.id].email = t.email
  /\ loginResult.token # NoToken => loginResult.token \in tokens
  /\ loginResult.status # OK => loginResult.token = NoToken
  /\ (loginResult # NoLogin /\ loginResult.pc = "done" /\ ~Validated) =>
       loginResult.status \in {BAD_REQUEST, UNAUTHORIZED, INTERNAL}
  /\ Validated =>
       /\ ( /\ loginResult.tenantCode # ""
            /\ \A m \in DOMAIN userTenants :
                 userTenants[m].userId = ValidatedUser =>
                   tenants[userTenants[m].tenantId].code # loginResult.tenantCode )
          => (loginResult.status = BAD_REQUEST /\ loginResult.token = NoToken)
       /\ ( /\ loginResult.tenantCode = ""
            /\ Len(MembershipsOf(ValidatedUser)) = 1 )
          => /\ loginResult.status = OK
             /\ loginResult.token.id = ValidatedUser
             /\ loginResult.token.tenantId = MembershipsOf(ValidatedUser)[1].tenantId

OtherTenantCodeWitness ==
  /\ Validated
  /\ loginResult.tenantCode = "BBB222"
  /\ UserTenantRows(ValidatedUser, 2) = {}
  /\ loginResult.status = BAD_REQUEST
  /\ loginResult.token = NoToken

(***************************************************************************)
(* Properties of the entity services, checked under Spec and under         *)
(* SpecProfiles.  `last` is the response of the latest request together    *)
(* with the request it answers.                                            *)
(***************************************************************************)
Succeeded == last.svc # "none" /\ last.status \in {OK, CREATED}

RowExists(svc, id) == id \in DOMAIN Table(svc)

\* C1: tenant isolation: a request of an entity service succeeds only if the
\* caller has a membership in the tenant of the token and the row it acted on
\* (and every row it listed) belongs to that tenant
TenantIsolation ==
  Succeeded =>
    /\ UserTenantRows(last.uid, last.tid) # {}
    /\ last.id # 0 => OwnerTenant(last.svc, last.id) = last.tid
    /\ \A r \in last.data : OwnerTenant(last.svc, r) = last.tid

\* C2 as stated: findOne of a row of another tenant, by a caller whose only
\* membership is in the tenant of the token, answers 404
FindOneOtherTenantIsNotFound ==
  ( /\ last.op = "findOne"
    /\ RowExists(last.svc, last.id)
    /\ OwnerTenant(last.svc, last.id) # last.tid
    /\ \A m \in DOMAIN userTenants :
         userTenants[m].userId = last.uid => userTenants[m].tenantId = last.tid
    /\ UserTenantRows(last.uid, last.tid) # {} )
  => last.status = NOT_FOUND

ClinicServices == {"Patient", "Visit", "Operation", "Prescription"}

\* the Doctor and Staff findOne requests that have answered
FoundOne == {p \in DOMAIN creates :
               creates[p].op = "findOne" /\ creates[p].pc = "done"}

\* C2 amended: findOne answers 404 exactly when the id is missing or the row
\* it fetched is soft-deleted; for a live row of a tenant other than the
\* token's it answers 403, so a tenant mismatch is told apart from a missing
\* id.  A findOne whose membership look-up throws answers 500 and is not
\* spoken of
FindOneOtherTenantIsForbidden ==
  /\ [][ \A svc \in ClinicServices, c \in ClinicReaders :
           ClinicFindOneBegin(svc, 1, c[1], c[2]) =>
             LET fetched == /\ 1 \in DOMAIN Table(svc)
                            /\ Table(svc)[1].deletedAt = NULL
                 returns == creates' = creates
             IN  /\ ~fetched <=> (returns /\ last'.status = NOT_FOUND)
                 /\ (fetched /\ OwnerTenant(svc, 1) # c[2]) =>
                      (returns /\ last'.status = FORBIDDEN) ]_vars
  /\ [][ \A p \in DOMAIN creates :
           (creates[p].svc \in ClinicServices /\ creates[p].op = "findOne"
              /\ Answers(p) /\ ~ClinicAuthorize(p, TRUE)) =>
             last'.status \in {OK, FORBIDDEN} ]_vars
  /\ [](\A p \in FoundOne :
          LET r == creates[p]
              fetched == r.row # NoRow /\ r.row.deletedAt = NULL
          IN  r.status # INTERNAL =>
                /\ r.status = NOT_FOUND <=> ~fetched
                /\ (fetched /\ r.row.tenantId # r.tid) => r.status = FORBIDDEN)

\* the admin of tenant 2 has asked for the doctor of tenant 1
FindOneOtherTenantWitness ==
  /\ last.op = "findOne"
  /\ last.svc = "Doctor"
  /\ last.uid = 2 /\ last.tid = 2
  /\ ~NotFoundOrDeleted(doctors, last.id)
  /\ OwnerTenant("Doctor", last.id) = 1
  /\ last.status = FORBIDDEN

\* the membership of the caller of the latest request is soft-deleted
CallerMembershipDeleted ==
  \E m \in UserTenantRows(last.uid, last.tid) : userTenants[m].deletedAt # NULL

\* C3: a request by a user whose membership in the tenant of the token is
\* soft-deleted is rejected
DeletedMembershipIsRejected ==
  (last.svc # "none" /\ CallerMembershipDeleted) => ~Succeeded

\* C4: a (user, tenant) pair with no UserTenant row is authorized for no role
\* set, the empty and the full one included, and no request of such a caller
\* succeeds
NoMembershipNeverAuthorized ==
  /\ \A uid \in DOMAIN users, tid \in DOMAIN tenants :
       UserTenantRows(uid, tid) = {} =>
         /\ \A roles \in SUBSET Roles : ~isAuthorizedInTenant(uid, tid, roles)
         /\ ~isAuthorizedInTenantAnyRole(uid, tid)
         /\ ~isAdminInTenant(uid, tid)
  /\ (last.svc # "none" /\ UserTenantRows(last.uid, last.tid) = {}) => ~Succeeded

NoMembershipWitness ==
  /\ last.op = "findAll"
  /\ UserTenantRows(last.uid, last.tid) = {}
  /\ last.status = FORBIDDEN

\* the profile rows, the users and the memberships of a role correspond
ProfileComplete(profiles, role) ==
  /\ \A d \in DOMAIN profiles :
       /\ profiles[d].userId \in DOMAIN users
       /\ users[profiles[d].userId].role = role
       /\ \E m \in UserTenantRows(profiles[d].userId, profiles[d].tenantId) :
            userTenants[m].role = role
  /\ \A u \in DOMAIN users :
       users[u].role = role => \E d \in DOMAIN profiles : profiles[d].userId = u
  /\ \A m \in DOMAIN userTenants :
       userTenants[m].role = role =>
         \E d \in DOMAIN profiles :
            /\ profiles[d].userId = userTenants[m].userId
            /\ profiles[d].tenantId = userTenants[m].tenantId

\* C6: a Doctor/Staff profile row exists if and only if its User (role
\* DOCTOR/STAFF) and a UserTenant row of the same user, tenant and role exist,
\* also after a create whose transaction failed at any of its three inserts
ProfileAllThreeOrNone ==
  /\ ProfileComplete(doctors, "DOCTOR")
  /\ ProfileComplete(staffs, "STAFF")

CreateFailedWitness ==
  /\ last.op = "create"
  /\ last.status = INTERNAL
  /\ last.svc = "Doctor"
  /\ Len(doctors) = 1 /\ Len(users) = 4 /\ Len(userTenants) = 4

\* the delete timestamps of a profile row, its user and its membership agree
ToggledTogether(profiles) ==
  \A d \in DOMAIN profiles :
     LET deleted == profiles[d].deletedAt # NULL
     IN  /\ deleted <=> users[profiles[d].userId].deletedAt # NULL
         /\ \A m \in UserTenantRows(profiles[d].userId, profiles[d].tenantId) :
              deleted <=> userTenants[m].deletedAt # NULL
         /\ deleted => ~profiles[d].isActive

\* C7: a profile row is soft-deleted if and only if its User and its
\* UserTenant membership are; a soft-deleted profile is not active and a
\* profile that was just restored is active
RemoveRestoreToggleTogether ==
  /\ ToggledTogether(doctors)
  /\ ToggledTogether(staffs)
  /\ (last.op = "restore" /\ last.status = OK) =>
       /\ Table(last.svc)[last.id].isActive
       /\ Table(last.svc)[last.id].deletedAt = NULL

\* the tables of the storage
tables == <<users, tenants, userTenants, doctors, staffs, patients, visits,
            operations, billings, prescriptions>>

\* the request that has just been received answered 404: it wrote no row
\* and has left no call in flight
Refused(svc, op, id) ==
  /\ last'.svc = svc /\ last'.op = op /\ last'.id = id
  /\ last'.status = NOT_FOUND
  /\ UNCHANGED tables
  /\ \A p \in DOMAIN creates' :
       creates'[p].pc # "done" => p \in DOMAIN creates /\ creates'[p] = creates[p]

\* C8: in the six services a remove called on a row that is soft-deleted
\* answers 404 and changes no row, so that the delete timestamp of the first
\* remove is kept; a restore called on a Doctor/Staff row that is not
\* soft-deleted answers 404 and changes no row
SoftDeleteIdempotent ==
  [][ \A id \in EntityIds, c \in Callers :
        /\ \A svc \in {"Doctor", "Staff"} :
             /\ ( /\ RowExists(svc, id)
                  /\ Table(svc)[id].deletedAt # NULL
                  /\ ProfileRemoveBegin(svc, id, c[1], c[2]) )
                  => Refused(svc, "remove", id)
             /\ ( /\ RowExists(svc, id)
                  /\ Table(svc)[id].deletedAt = NULL
                  /\ ProfileRestoreBegin(svc, id, c[1], c[2]) )
                  => Refused(svc, "restore", id)
        /\ \A svc \in ClinicServices :
             ( /\ RowExists(svc, id)
               /\ Table(svc)[id].deletedAt # NULL
               /\ ClinicRemoveBegin(svc, id, c[1], c[2]) )
               => Refused(svc, "remove", id) ]_vars

\* the admin of tenant 1 removed the visit at time 1 and has just been
\* answered 404 to a second remove, at time 2
SecondRemoveWitness ==
  /\ last.svc = "Visit" /\ last.op = "remove" /\ last.id = 1
  /\ last.uid = 1 /\ last.tid = 1
  /\ last.status = NOT_FOUND
  /\ now = 2
  /\ visits[1].deletedAt = 1

(***************************************************************************)
(* Login after Doctor.remove / Staff.remove.  The removes and restores of  *)
(* the profile services and POST /auth/login over the same storage: the    *)
(* doctor (user 3) and the staff member (user 4) of tenant 1 each hold one *)
(* membership, which remove soft-deletes.                                  *)
(***************************************************************************)
MemberEmails == {"d1@x.io", "s1@x.io", "a1@x.io"}
MemberPasswords == {<<"pw", 3>>, <<"pw", 4>>}
MemberCodes == {"", "AAA111"}

\* the callers of remove and restore: the admin of tenant 1 and the doctor
Removers == {<<1, 1>>, <<3, 1>>}

NextMemberLogin ==
  \/ Tick
  \/ \E email \in MemberEmails, password \in MemberPasswords,
        tenantCode \in MemberCodes, fault \in BOOLEAN :
       LoginBegin(email, password, tenantCode, fault)
  \/ \E fault \in BOOLEAN : LoginFindMemberships(fault)
  \/ \E c \in Removers, svc \in {"Doctor", "Staff"} :
       \/ ProfileRemoveBegin(svc, 1, c[1], c[2])
       \/ ProfileRestoreBegin(svc, 1, c[1], c[2])
  \/ \E p \in 1 .. MaxRequests :
       \/ ProfileAuthorize(p, FALSE)
       \/ ProfileTransaction(p, 0)

SpecMemberLogin == InitStaffed /\ [][NextMemberLogin]_vars

\* C11: a login with the right e-mail and password of a user none of whose
\* memberships is active (deletedAt null) answers 400 and issues no token,
\* when the look-up of the memberships returns
RemovedMemberCannotLogin ==
  [][ ( /\ LoginFindMemberships(FALSE)
        /\ loginResult.password = StoredPassword(loginResult.user.id)
        /\ \A m \in DOMAIN userTenants :
             userTenants[m].userId = loginResult.user.id =>
               userTenants[m].deletedAt # NULL )
      => /\ loginResult'.status = BAD_REQUEST
         /\ loginResult'.token = NoToken
         /\ tokens' = tokens ]_vars

(***************************************************************************)
(* Visit.create and the fee-waiver window.  Time is counted in days; a     *)
(* visit row here carries visitDate (the day it was created) and           *)
(* feeValidUntil (NULL when Patient.create wrote the row), a billing row   *)
(* carries its payment status.                                             *)
(***************************************************************************)
FeeWindow == 14
MaxDay == 16
MaxVisits == 3

\* visit.findFirst({ where: { patientId }, orderBy: { visitDate: 'desc' } }):
\* the rows the query can return, soft-deleted rows among them
LastVisits(patientId) ==
  {v \in DOMAIN visits :
     /\ visits[v].patientId = patientId
     /\ \A w \in DOMAIN visits :
          visits[w].patientId = patientId =>
            visits[w].visitDate <= visits[v].visitDate}

\* a mutant of needsNewFee: any earlier visit is outside the window
needsNewFeeNoWindow(lastVisit) ==
  lastVisit = 0 \/ visits[lastVisit].visitDate < now

\* !lastVisit || new Date(lastVisit.visitDate) < fourteenDaysAgo
needsNewFee(lastVisit) ==
  lastVisit = 0 \/ visits[lastVisit].visitDate < now - FeeWindow

\* what the look-ups of a Visit.create have fetched: the registration fee of
\* the patient, the last visit (0: none) with its feeValidUntil, the day
\* the window began on when the last visit was fetched, and whether the fee
\* is due again
NoVisitLocals == [registrationFee |-> 0, lastVisit |-> 0,
                  feeValidUntil |-> NULL, fourteenDaysAgo |-> 0, due |-> FALSE]

\* create: isAuthorizedInTenant
VisitsCreateBegin(dto, uid, tid) ==
  ClinicBegins("Visit", "create", 0, dto, uid, tid, NoVisitLocals,
               IF ~ClinicAuthorized("Visit", "create", uid, tid) THEN FORBIDDEN
               ELSE 0,
               "visitTenant")

\* create: tenant.findUnique({ where: { id: tenantId } })
VisitsCreateFindTenant(p, fault) ==
  /\ p \in DOMAIN creates
  /\ creates[p].pc = "visitTenant"
  /\ IF fault THEN ClinicReturns(p, INTERNAL)
     ELSE IF creates[p].tid \notin DOMAIN tenants THEN ClinicReturns(p, NOT_FOUND)
     ELSE ProfileGoes(p, "visitPatient")
  /\ UNCHANGED clinicVars
  /\ ClinicFrame

\* create: patient.findUnique({ where: { id: patientId, tenantId } })
VisitsCreateFindPatient(p, fault) ==
  /\ p \in DOMAIN creates
  /\ creates[p].pc = "visitPatient"
  /\ LET r == creates[p]
     IN  IF fault THEN ClinicReturns(p, INTERNAL)
         ELSE IF \/ r.dto.patientId \notin DOMAIN patients
                 \/ patients[r.dto.patientId].tenantId # r.tid
         THEN ClinicReturns(p, NOT_FOUND)
         ELSE /\ creates' = [creates EXCEPT
                   ![p].row.registrationFee =
                      patients[r.dto.patientId].registrationFee,
                   ![p].pc = "visitDoctor", ![p].time = now]
              /\ UNCHANGED last
  /\ UNCHANGED clinicVars
  /\ ClinicFrame

\* create: doctor.findUnique({ where: { id: doctorId, tenantId } }), then the
\* consultation fee, when given, is not negative
VisitsCreateFindDoctor(p, fault) ==
  /\ p \in DOMAIN creates
  /\ creates[p].pc = "visitDoctor"
  /\ LET r == creates[p]
     IN  IF fault THEN ClinicReturns(p, INTERNAL)
         ELSE IF \/ r.dto.doctorId \notin DOMAIN doctors
                 \/ doctors[r.dto.doctorId].tenantId # r.tid
         THEN ClinicReturns(p, NOT_FOUND)
         ELSE IF "consultationFee" \in DOMAIN r.dto /\ r.dto.consultationFee < 0
         THEN ClinicReturns(p, BAD_REQUEST)
         ELSE ProfileGoes(p, "visitLast")
  /\ UNCHANGED clinicVars
  /\ ClinicFrame

\* create: visit.findFirst and the 14 days rule
VisitsCreateFindLast(p, fault) ==
  /\ p \in DOMAIN creates
  /\ creates[p].pc = "visitLast"
  /\ LET found == LastVisits(creates[p].dto.patientId)
     IN  IF fault THEN ClinicReturns(p, INTERNAL)
         ELSE /\ \E lastVisit \in IF found = {} THEN {0} ELSE found :
                   creates' = [creates EXCEPT
                     ![p].row.lastVisit = lastVisit,
                     ![p].row.feeValidUntil =
                        IF lastVisit = 0 THEN NULL
                        ELSE visits[lastVisit].feeValidUntil,
                     ![p].row.fourteenDaysAgo = now - FeeWindow,
                     ![p].row.due = needsNewFee(lastVisit),
                     ![p].pc = "visitCreate", ![p].time = now]
              /\ UNCHANGED last
  /\ UNCHANGED clinicVars
  /\ ClinicFrame

\* create: visit.create.  feeValidUntil is new Date(Date.now() + 14 days)
\* at the call, which the handler makes when visit.findFirst has answered;
\* visitDate is not given and is the time of the insert
VisitsCreateVisit(p, fault) ==
  /\ p \in DOMAIN creates
  /\ creates[p].pc = "visitCreate"
  /\ LET r == creates[p]
     IN  IF fault THEN ClinicAnswers(p, INTERNAL, 0, {}) /\ UNCHANGED visits
         ELSE /\ visits' = Append(visits,
                   [patientId |-> r.dto.patientId, doctorId |-> r.dto.doctorId,
                    staffId |-> r.uid,
                    consultationFee |-> IF "consultationFee" \in DOMAIN r.dto
                                        THEN r.dto.consultationFee ELSE 0,
                    notes |-> <<IF "notes" \in DOMAIN r.dto /\ r.dto.notes # ""
                                THEN r.dto.notes ELSE "New visit">>,
                    visitDate |-> now,
                    feeValidUntil |-> IF r.row.due THEN r.time + FeeWindow
                                      ELSE r.row.feeValidUntil,
                    deletedAt |-> NULL])
              /\ creates' = [creates EXCEPT ![p].id = Len(visits) + 1,
                                            ![p].pc = "visitCount",
                                            ![p].time = now]
              /\ UNCHANGED last
  /\ UNCHANGED <<patients, operations, billings, prescriptions>>
  /\ ClinicFrame

\* create: patient.update({ data: { noOfVisits: { increment: 1 } } })
VisitsCreateCount(p, fault) ==
  /\ p \in DOMAIN creates
  /\ creates[p].pc = "visitCount"
  /\ LET r == creates[p]
     IN  IF fault THEN ClinicAnswers(p, INTERNAL, 0, {}) /\ UNCHANGED patients
         ELSE /\ patients' = [patients EXCEPT ![r.dto.patientId].noOfVisits = @ + 1]
              /\ IF r.row.due THEN ProfileGoes(p, "visitBilling")
                 ELSE ClinicReturns(p, CREATED)
  /\ UNCHANGED <<visits, operations, billings, prescriptions>>
  /\ ClinicFrame

\* create: billing.create of the registration fee, when it is due again
VisitsCreateBilling(p, fault) ==
  /\ p \in DOMAIN creates
  /\ creates[p].pc = "visitBilling"
  /\ LET r == creates[p]
     IN  IF fault THEN ClinicAnswers(p, INTERNAL, 0, {}) /\ UNCHANGED billings
         ELSE /\ billings' = Append(billings,
                   [patientId |-> r.dto.patientId, type |-> "REGISTRATION",
                    amount |-> r.row.registrationFee,
                    status |-> "UNPAID", deletedAt |-> NULL])
              /\ ClinicReturns(p, CREATED)
  /\ UNCHANGED <<patients, visits, operations, prescriptions>>
  /\ ClinicFrame

\* a step of a Visit.create in flight
VisitsCreateStep ==
  \E p \in DOMAIN creates :
     \E fault \in BOOLEAN :
        \/ VisitsCreateFindTenant(p, fault)
        \/ VisitsCreateFindPatient(p, fault)
        \/ VisitsCreateFindDoctor(p, fault)
        \/ VisitsCreateFindLast(p, fault)
        \/ VisitsCreateVisit(p, fault)
        \/ VisitsCreateCount(p, fault)
        \/ VisitsCreateBilling(p, fault)

\* the days between two requests
Days(d) ==
  /\ now + d <= MaxDay
  /\ now' = now + d
  /\ UNCHANGED <<users, tenants, userTenants, staffVars, clinicVars, last,
                 authVars, creates, calls>>

\* patients 1 and 2 as in the first clinic; patient 3 of tenant 1 was
\* registered with no doctor, so that its first visit was not created
DatedPatients ==
  FirstPatients \o
    <<[tenantId |-> 1, doctorId |-> NULL, registrationFee |-> 40,
       noOfVisits |-> 0, deletedAt |-> NULL]>>

DatedVisits ==
  <<[patientId |-> 1, doctorId |-> 1, staffId |-> 4, consultationFee |-> 0,
     visitDate |-> 1, feeValidUntil |-> NULL,
     notes |-> <<"Initial registration">>, deletedAt |-> NULL]>>

DatedBillings ==
  <<[patientId |-> 1, type |-> "REGISTRATION", amount |-> 30,
     status |-> "UNPAID", deletedAt |-> NULL],
    [patientId |-> 2, type |-> "REGISTRATION", amount |-> 30,
     status |-> "UNPAID", deletedAt |-> NULL],
    [patientId |-> 3, type |-> "REGISTRATION", amount |-> 40,
     status |-> "UNPAID", deletedAt |-> NULL]>>

InitVisits ==
  /\ tenants = TwoTenants
  /\ users = StaffedUsers
  /\ userTenants = StaffedMemberships
  /\ doctors = FirstProfile(3)
  /\ staffs = FirstProfile(4)
  /\ patients = DatedPatients
  /\ visits = DatedVisits
  /\ billings = DatedBillings
  /\ operations = <<>>
  /\ prescriptions = <<>>
  /\ NoAuthActivity
  /\ creates = <<>>
  /\ now = 1
  /\ last = NoResponse
  /\ calls = 0

VisitCallers == {<<4, 1>>, <<2, 2>>, <<1, 2>>}

CreateVisitDtos ==
  {[patientId |-> 1, doctorId |-> 1],
   [patientId |-> 3, doctorId |-> 1, consultationFee |-> 20],
   [patientId |-> 1, doctorId |-> 1, consultationFee |-> 0 - 1],
   [patientId |-> 1, doctorId |-> 1, notes |-> ""],
   [patientId |-> 2, doctorId |-> 1],
   [patientId |-> 1, doctorId |-> 2]}

\* the requests overlap, and days pass between any two steps
NextVisits ==
  \/ \E d \in {13, 14, 15} : Days(d)
  \/ \E c \in VisitCallers, dto \in CreateVisitDtos :
       /\ calls < MaxCalls
       /\ Len(visits) < MaxVisits
       /\ VisitsCreateBegin(dto, c[1], c[2])
  \/ VisitsCreateStep
  \/ \E id \in {1, 2} :
       calls < MaxCalls /\ ClinicRemoveBegin("Visit", id, 1, 1)
  \/ \E p \in DOMAIN creates, fault \in BOOLEAN :
       ClinicAuthorize(p, fault) \/ ClinicWrite(p, fault)

SpecVisits == InitVisits /\ [][NextVisits]_vars

\* C12: when visit.findFirst of a Visit.create answers and the patient's
\* most recent visit is then less than 14 days old, the fee is not due and
\* the create keeps the feeValidUntil of that visit; when that visit is more
\* than 14 days old, or there is none, the fee is due.  The visit the create
\* inserts has the feeValidUntil that was kept, or, the fee being due, the
\* day of that decision + 14, whatever the day of the insert.  A create
\* that answers 201 has added no billing row when the fee was not due, and
\* exactly one REGISTRATION row, UNPAID, of the patient's registrationFee,
\* when it was; no other step adds or changes a billing row
FeeWaiverWindow ==
  [][ /\ billings' # billings =>
           \E p \in DOMAIN creates : VisitsCreateBilling(p, FALSE)
      /\ \A p \in DOMAIN creates :
           LET r == creates[p]
               latest == LastVisits(r.dto.patientId)
               decided == creates'[p].row
               today == r.row.fourteenDaysAgo + FeeWindow
               new == visits'[Len(visits) + 1]
           IN  r.op = "create" =>
                 /\ VisitsCreateFindLast(p, FALSE) =>
                      /\ decided.fourteenDaysAgo = now - 14
                      /\ \A v \in latest :
                           now - visits[v].visitDate < 14 =>
                             /\ ~decided.due
                             /\ decided.lastVisit \in latest
                             /\ decided.feeValidUntil =
                                  visits[decided.lastVisit].feeValidUntil
                      /\ ( \/ latest = {}
                           \/ \E v \in latest : now - visits[v].visitDate > 14 )
                           => decided.due
                 /\ VisitsCreateVisit(p, FALSE) =>
                      /\ new.patientId = r.dto.patientId
                      /\ new.feeValidUntil = IF r.row.due THEN today + 14
                                             ELSE r.row.feeValidUntil
                 /\ ( /\ VisitsCreateCount(p, FALSE) \/ VisitsCreateBilling(p, FALSE)
                      /\ Answers(p)
                      /\ last'.status = CREATED ) =>
                      /\ last'.id = r.id
                      /\ ~r.row.due => billings' = billings
                      /\ r.row.due =>
                           billings' = Append(billings,
                             [patientId |-> r.dto.patientId,
                              type |-> "REGISTRATION",
                              amount |-> patients[r.dto.patientId].registrationFee,
                              status |-> "UNPAID", deletedAt |-> NULL]) ]_vars

\* a visit 13 days after the first one of patient 1 was not charged, after a
\* first visit of patient 3 was
FeeWaivedWitness ==
  /\ last.svc = "Visit" /\ last.op = "create" /\ last.status = CREATED
  /\ last.id = 3
  /\ visits[3].patientId = 1 /\ visits[3].visitDate = visits[1].visitDate + 13
  /\ visits[3].feeValidUntil = visits[1].feeValidUntil
  /\ visits[2].patientId = 3 /\ visits[2].feeValidUntil = visits[2].visitDate + 14
  /\ Len(billings) = 4

(***************************************************************************)
(* Patient.create.  The handler awaits its storage calls one after the     *)
(* other with no transaction, so the calls of two creates interleave.  A   *)
(* create in flight is [uid, tid, dto, pc, count, patientNumber,           *)
(* patientId, status].  In the specifications of this section a text is    *)
(* the sequence of its characters, and a patient row carries its           *)
(* patientNumber.                                                          *)
(***************************************************************************)
\* the number of creates of a behaviour
MaxCreates == 2

LowerCase == <<"a", "b", "c", "d", "e", "f", "g", "h", "i", "j", "k", "l", "m",
               "n", "o", "p", "q", "r", "s", "t", "u", "v", "w", "x", "y", "z">>
UpperCase == <<"A", "B", "C", "D", "E", "F", "G", "H", "I", "J", "K", "L", "M",
               "N", "O", "P", "Q", "R", "S", "T", "U", "V", "W", "X", "Y", "Z">>

\* String.prototype.toUpperCase
toUpperCase(s) ==
  [i \in DOMAIN s |->
     IF \E k \in DOMAIN LowerCase : LowerCase[k] = s[i]
     THEN UpperCase[CHOOSE k \in DOMAIN LowerCase : LowerCase[k] = s[i]]
     ELSE s[i]]

Digits == <<"0", "1", "2", "3", "4", "5", "6", "7", "8", "9">>

\* Number.prototype.toString of a natural number
RECURSIVE toString(_)
toString(n) ==
  IF n < 10 THEN <<Digits[n + 1]>>
  ELSE toString(n \div 10) \o <<Digits[(n % 10) + 1]>>

\* String.prototype.padStart
padStart(s, targetLength, padString) ==
  IF Len(s) >= targetLength THEN s
  ELSE [i \in 1 .. (targetLength - Len(s)) |-> padString] \o s

\* a mutant of PatientNumber: the count itself is the sequence number
PatientNumberFromCount(code, count) ==
  <<"P", "T", "-">> \o toUpperCase(code) \o <<"-">>
    \o padStart(toString(count), 3, "0")

\* `PT-${tenant.code.toUpperCase()}-${(count + 1).toString().padStart(3, '0')}`
PatientNumber(code, count) ==
  <<"P", "T", "-">> \o toUpperCase(code) \o <<"-">>
    \o padStart(toString(count + 1), 3, "0")

\* prisma.patient.count({ where: { tenantId } }): soft-deleted rows count
PatientCount(tid) ==
  Cardinality({p \in DOMAIN patients : patients[p].tenantId = tid})

\* a mutant of PatientNumberTaken: the storage accepts any patientNumber
PatientNumberNeverTaken(tid, patientNumber) == FALSE

\* the storage refuses a second row of the tenant with the same patientNumber
PatientNumberTaken(tid, patientNumber) ==
  \E p \in DOMAIN patients :
     patients[p].tenantId = tid /\ patients[p].patientNumber = patientNumber

\* strings the phone regular expression /^\d{10,15}$/ rejects
MalformedPhones == {"12ab"}

CreatesFrame ==
  UNCHANGED <<users, tenants, userTenants, staffVars, operations,
              prescriptions, now, last, authVars, calls>>

\* the create returns with this status
CreateReturns(p, status) ==
  creates' = [creates EXCEPT ![p].pc = "done", ![p].status = status]

CreateGoes(p, pc) == creates' = [creates EXCEPT ![p].pc = pc]

\* the phone, when given, matches the pattern
PhoneRejected(dto) == "phone" \in DOMAIN dto /\ dto.phone \in MalformedPhones

\* the request arrives: isAuthorizedInTenant
PatientsCreateBegin(dto, uid, tid) ==
  /\ Len(creates) < MaxCreates
  /\ LET rejected == IF ~isAuthorizedInTenantAnyRole(uid, tid) THEN FORBIDDEN
                     ELSE 0
     IN  creates' = Append(creates,
           [svc |-> "Patient", op |-> "create", uid |-> uid, tid |-> tid,
            dto |-> dto,
            pc |-> IF rejected = 0 THEN "patientTenant" ELSE "done",
            code |-> <<>>, count |-> 0, patientNumber |-> <<>>,
            patientId |-> 0, status |-> rejected])
  /\ Received
  /\ UNCHANGED <<patients, billings, visits>>
  /\ UNCHANGED <<users, tenants, userTenants, staffVars, operations,
                 prescriptions, now, last, authVars>>

\* tenant.findUnique({ where: { id: tenantId } }), then the registration fee
\* is positive and, when no doctorId is given, the phone matches the pattern
PatientsCreateFindTenant(p, fault) ==
  /\ p \in DOMAIN creates
  /\ creates[p].pc = "patientTenant"
  /\ LET c == creates[p]
     IN  IF fault THEN CreateReturns(p, INTERNAL)
         ELSE IF c.tid \notin DOMAIN tenants THEN CreateReturns(p, NOT_FOUND)
         ELSE IF c.dto.registrationFee <= 0 THEN CreateReturns(p, BAD_REQUEST)
         ELSE IF "doctorId" \in DOMAIN c.dto THEN CreateGoes(p, "patientDoctor")
         ELSE IF PhoneRejected(c.dto) THEN CreateReturns(p, BAD_REQUEST)
         ELSE CreateGoes(p, "numberTenant")
  /\ UNCHANGED <<patients, billings, visits>>
  /\ CreatesFrame

\* doctor.findUnique({ where: { id: doctorId, tenantId } }), then the phone
PatientsCreateFindDoctor(p, fault) ==
  /\ p \in DOMAIN creates
  /\ creates[p].pc = "patientDoctor"
  /\ LET c == creates[p]
     IN  IF fault THEN CreateReturns(p, INTERNAL)
         ELSE IF \/ c.dto.doctorId \notin DOMAIN doctors
                 \/ doctors[c.dto.doctorId].tenantId # c.tid
         THEN CreateReturns(p, NOT_FOUND)
         ELSE IF PhoneRejected(c.dto) THEN CreateReturns(p, BAD_REQUEST)
         ELSE CreateGoes(p, "numberTenant")
  /\ UNCHANGED <<patients, billings, visits>>
  /\ CreatesFrame

\* generatePatientNumber: tenant.findUnique({ where: { id: tenantId } })
PatientsCreateNumberTenant(p, fault) ==
  /\ p \in DOMAIN creates
  /\ creates[p].pc = "numberTenant"
  /\ IF fault THEN CreateReturns(p, INTERNAL)
     ELSE IF creates[p].tid \notin DOMAIN tenants
     THEN CreateReturns(p, NOT_FOUND)
     ELSE creates' = [creates EXCEPT ![p].pc = "count",
                                     ![p].code = tenants[creates[p].tid].code]
  /\ UNCHANGED <<patients, billings, visits>>
  /\ CreatesFrame

\* generatePatientNumber: patient.count({ where: { tenantId } })
PatientsCreateCount(p, fault) ==
  /\ p \in DOMAIN creates
  /\ creates[p].pc = "count"
  /\ LET count == PatientCount(creates[p].tid)
     IN  IF fault THEN CreateReturns(p, INTERNAL)
         ELSE creates' = [creates EXCEPT
                ![p].pc = "patient",
                ![p].count = count,
                ![p].patientNumber = PatientNumber(creates[p].code, count)]
  /\ UNCHANGED <<patients, billings, visits>>
  /\ CreatesFrame

\* prisma.patient.create
PatientsCreatePatient(p, fault) ==
  /\ p \in DOMAIN creates
  /\ creates[p].pc = "patient"
  /\ LET c == creates[p]
     IN  IF fault \/ PatientNumberTaken(c.tid, c.patientNumber)
         THEN CreateReturns(p, INTERNAL) /\ UNCHANGED patients
         ELSE /\ patients' = Append(patients,
                   [tenantId |-> c.tid,
                    doctorId |-> IF "doctorId" \in DOMAIN c.dto
                                 THEN c.dto.doctorId ELSE NULL,
                    registrationFee |-> c.dto.registrationFee,
                    noOfVisits |-> 0,
                    patientNumber |-> c.patientNumber,
                    deletedAt |-> NULL])
              /\ creates' = [creates EXCEPT ![p].pc = "patientBilling",
                                            ![p].patientId = Len(patients) + 1]
  /\ UNCHANGED <<billings, visits>>
  /\ CreatesFrame

\* prisma.billing.create
PatientsCreateBilling(p, fault) ==
  /\ p \in DOMAIN creates
  /\ creates[p].pc = "patientBilling"
  /\ IF fault THEN CreateReturns(p, INTERNAL) /\ UNCHANGED billings
     ELSE /\ billings' = Append(billings,
               [patientId |-> creates[p].patientId, type |-> "REGISTRATION",
                amount |-> creates[p].dto.registrationFee,
                status |-> "UNPAID", deletedAt |-> NULL])
          /\ creates' = [creates EXCEPT ![p].pc = "visit"]
  /\ UNCHANGED <<patients, visits>>
  /\ CreatesFrame

\* prisma.visit.create: doctorId || '' leads to no doctor when none is given
PatientsCreateVisit(p, fault) ==
  /\ p \in DOMAIN creates
  /\ creates[p].pc = "visit"
  /\ IF fault \/ "doctorId" \notin DOMAIN creates[p].dto
     THEN CreateReturns(p, INTERNAL) /\ UNCHANGED visits
     ELSE /\ visits' = Append(visits,
               [patientId |-> creates[p].patientId,
                doctorId |-> creates[p].dto.doctorId,
                staffId |-> creates[p].uid, consultationFee |-> 0,
                notes |-> <<"Initial registration">>,
                visitDate |-> now, feeValidUntil |-> NULL,
                deletedAt |-> NULL])
          /\ creates' = [creates EXCEPT ![p].pc = "noOfVisits"]
  /\ UNCHANGED <<patients, billings>>
  /\ CreatesFrame

\* prisma.patient.update({ data: { noOfVisits: 1 } })
PatientsCreateNoOfVisits(p, fault) ==
  /\ p \in DOMAIN creates
  /\ creates[p].pc = "noOfVisits"
  /\ IF fault THEN CreateReturns(p, INTERNAL) /\ UNCHANGED patients
     ELSE /\ patients' = [patients EXCEPT ![creates[p].patientId].noOfVisits = 1]
          /\ CreateReturns(p, CREATED)
  /\ UNCHANGED <<billings, visits>>
  /\ CreatesFrame

(***************************************************************************)
(* Patient numbering.  Tenant 1 has registered n patients, one after the   *)
(* other and with no doctor, before the creates of the behaviour; the      *)
(* creates of the behaviour do not overlap.                                *)
(***************************************************************************)
\* the codes signup gives: six characters, upper case
CodedTenants ==
  <<[code |-> <<"A", "B", "C", "1", "2", "3">>, name |-> "Clinic A"],
    [code |-> <<"X", "Y", "Z", "7", "8", "9">>, name |-> "Clinic B"]>>

\* the numbers of patients tenant 1 starts with
PatientCounts == {0, 2, 9, 99, 998, 999}

RegisteredPatients(n) ==
  [i \in 1 .. n |->
     [tenantId |-> 1, doctorId |-> NULL, registrationFee |-> 30,
      noOfVisits |-> 0,
      patientNumber |-> PatientNumber(CodedTenants[1].code, i - 1),
      deletedAt |-> NULL]]

RegisteredBillings(n) ==
  [i \in 1 .. n |->
     [patientId |-> i, type |-> "REGISTRATION", amount |-> 30,
      status |-> "UNPAID", deletedAt |-> NULL]]

InitNumbering ==
  /\ tenants = CodedTenants
  /\ users = StaffedUsers
  /\ userTenants = StaffedMemberships
  /\ doctors = FirstProfile(3)
  /\ staffs = FirstProfile(4)
  /\ \E n \in PatientCounts :
       patients = RegisteredPatients(n) /\ billings = RegisteredBillings(n)
  /\ visits = <<>>
  /\ operations = <<>>
  /\ prescriptions = <<>>
  /\ NoAuthActivity
  /\ creates = <<>>
  /\ now = 1
  /\ last = NoResponse
  /\ calls = 0

PatientCallers == {<<4, 1>>, <<2, 2>>, <<1, 2>>}

CreatePatientDtos ==
  {[registrationFee |-> 30, doctorId |-> 1],
   [registrationFee |-> 40],
   [registrationFee |-> 0],
   [registrationFee |-> 30, phone |-> "12ab"],
   [registrationFee |-> 30, doctorId |-> 2]}

\* the steps of the creates in flight
PatientsCreateStep ==
  \E p \in DOMAIN creates :
     \E fault \in BOOLEAN :
        \/ PatientsCreateFindTenant(p, fault)
        \/ PatientsCreateFindDoctor(p, fault)
        \/ PatientsCreateNumberTenant(p, fault)
        \/ PatientsCreateCount(p, fault)
        \/ PatientsCreatePatient(p, fault)
        \/ PatientsCreateBilling(p, fault)
        \/ PatientsCreateVisit(p, fault)
        \/ PatientsCreateNoOfVisits(p, fault)

NextNumbering ==
  \/ \E c \in PatientCallers, dto \in CreatePatientDtos :
       /\ \A p \in DOMAIN creates : creates[p].pc = "done"
       /\ PatientsCreateBegin(dto, c[1], c[2])
  \/ PatientsCreateStep

SpecNumbering == InitNumbering /\ [][NextNumbering]_vars

\* C13: the patient row a create inserts into a tenant with code C and n
\* patient rows, n < 999, has the patientNumber PT-C-(n + 1), the number
\* written with three digits
PatientNumbering ==
  [][ Len(patients') = Len(patients) + 1 =>
        LET row == patients'[Len(patients')]
            n == Cardinality({p \in DOMAIN patients :
                                patients[p].tenantId = row.tenantId})
            seq == n + 1
        IN  n < 999 =>
              row.patientNumber =
                <<"P", "T", "-">> \o tenants[row.tenantId].code \o <<"-">>
                  \o <<Digits[(seq \div 100) + 1],
                       Digits[((seq \div 10) % 10) + 1],
                       Digits[(seq % 10) + 1]>> ]_vars

\* code ABC123 and 2 patients: the third is PT-ABC123-003
ThirdPatientWitness ==
  /\ Len(patients) = 3
  /\ patients[3].tenantId = 1
  /\ patients[3].patientNumber =
       <<"P", "T", "-", "A", "B", "C", "1", "2", "3", "-", "0", "0", "3">>
  /\ \E p \in DOMAIN creates :
       creates[p].patientId = 3 /\ creates[p].status = CREATED

(***************************************************************************)
(* Overlapping Patient.create requests and Patient.remove in a clinic      *)
(* where tenant 1 has registered two patients.                             *)
(***************************************************************************)
InitPatients ==
  /\ tenants = CodedTenants
  /\ users = StaffedUsers
  /\ userTenants = StaffedMemberships
  /\ doctors = FirstProfile(3)
  /\ staffs = FirstProfile(4)
  /\ patients = RegisteredPatients(2)
  /\ billings = RegisteredBillings(2)
  /\ visits = <<>>
  /\ operations = <<>>
  /\ prescriptions = <<>>
  /\ NoAuthActivity
  /\ creates = <<>>
  /\ now = 1
  /\ last = NoResponse
  /\ calls = 0

\* the staff member of tenant 1 and the admin of tenant 2 register patients
RaceCallers == {<<4, 1>>, <<2, 2>>}

RacePatientDtos ==
  {[registrationFee |-> 30, doctorId |-> 1], [registrationFee |-> 40]}

\* the removes come one after the other
NextPatients ==
  \/ \E c \in RaceCallers, dto \in RacePatientDtos :
       PatientsCreateBegin(dto, c[1], c[2])
  \/ PatientsCreateStep
  \/ \E id \in {1, 3} :
       /\ \A p \in DOMAIN creates : creates[p].op # "remove"
       /\ ClinicRemoveBegin("Patient", id, 1, 1)
  \/ \E p \in DOMAIN creates : ClinicAuthorize(p, FALSE) \/ ClinicWrite(p, FALSE)

SpecPatients == InitPatients /\ [][NextPatients]_vars

\* C14: no two patient rows of a tenant have the same patientNumber, and a
\* create whose insert was refused has left no patient row and no billing
\* row: the rows added are those of the creates that inserted one
PatientNumberUnique ==
  /\ \A p, q \in DOMAIN patients :
       ( /\ p # q
         /\ patients[p].tenantId = patients[q].tenantId )
       => patients[p].patientNumber # patients[q].patientNumber
  /\ LET inserted == {c \in DOMAIN creates :
                         creates[c].op = "create" /\ creates[c].patientId # 0}
     IN  /\ Len(patients) = 2 + Cardinality(inserted)
         /\ \A c, d \in inserted :
              c # d => creates[c].patientId # creates[d].patientId
         /\ \A c \in inserted :
              /\ creates[c].patientId \in DOMAIN patients
              /\ patients[creates[c].patientId].patientNumber
                   = creates[c].patientNumber
         /\ \A b \in DOMAIN billings :
              b > 2 => \E c \in inserted : billings[b].patientId = creates[c].patientId

\* two creates counted the same two patients; one inserted PT-ABC123-003 and
\* the other was refused
LostNumberRaceWitness ==
  /\ Len(creates) = 2
  /\ creates[1].op = "create" /\ creates[2].op = "create"
  /\ creates[1].count = 2 /\ creates[2].count = 2
  /\ creates[1].tid = 1 /\ creates[2].tid = 1
  /\ creates[1].patientId = 3
  /\ creates[2].pc = "done"
  /\ creates[2].status = INTERNAL
  /\ creates[2].patientId = 0
  /\ Len(patients) = 3

(***************************************************************************)
(* Operation.create, update and remove with their billing rows.  A visit   *)
(* row here carries its notes (the names of the operations appended to     *)
(* it); an OPERATION billing row carries, as history only, the operation   *)
(* whose create wrote it: the code stores no link between the two.         *)
(***************************************************************************)
\* the number of operation rows of a behaviour
MaxOperations == 2

\* a mutant of OperationFeeRejected: a fee of zero is accepted
OperationFeeRejectedZeroFee(fee) == fee < 0

\* create: new Decimal(fee).lte(0)
OperationFeeRejected(fee) == fee <= 0

\* create: isAuthorizedInTenant(user.id, user.tenantId, [DOCTOR, ADMIN])
OperationsCreateBegin(dto, uid, tid) ==
  ClinicBegins("Operation", "create", 0, dto, uid, tid, [latestVisit |-> 0],
               IF ~ClinicAuthorized("Operation", "create", uid, tid)
               THEN FORBIDDEN ELSE 0,
               "operationPatient")

\* create: patient.findUnique({ where: { id: patientId, tenantId,
\* deletedAt: null } })
OperationsCreateFindPatient(p, fault) ==
  /\ p \in DOMAIN creates
  /\ creates[p].pc = "operationPatient"
  /\ LET r == creates[p]
     IN  IF fault THEN ClinicReturns(p, INTERNAL)
         ELSE IF \/ r.dto.patientId \notin DOMAIN patients
                 \/ patients[r.dto.patientId].tenantId # r.tid
                 \/ patients[r.dto.patientId].deletedAt # NULL
         THEN ClinicReturns(p, NOT_FOUND)
         ELSE ProfileGoes(p, "operationSurgeon")
  /\ UNCHANGED clinicVars
  /\ ClinicFrame

\* create: doctor.findUnique({ where: { id: surgeonId, tenantId,
\* deletedAt: null } }), then the fee is positive
OperationsCreateFindSurgeon(p, fault) ==
  /\ p \in DOMAIN creates
  /\ creates[p].pc = "operationSurgeon"
  /\ LET r == creates[p]
     IN  IF fault THEN ClinicReturns(p, INTERNAL)
         ELSE IF \/ r.dto.surgeonId \notin DOMAIN doctors
                 \/ doctors[r.dto.surgeonId].tenantId # r.tid
                 \/ doctors[r.dto.surgeonId].deletedAt # NULL
         THEN ClinicReturns(p, NOT_FOUND)
         ELSE IF OperationFeeRejected(r.dto.fee)
         THEN ClinicReturns(p, BAD_REQUEST)
         ELSE ProfileGoes(p, "operationCreate")
  /\ UNCHANGED clinicVars
  /\ ClinicFrame

\* create: operation.create
OperationsCreateOperation(p, fault) ==
  /\ p \in DOMAIN creates
  /\ creates[p].pc = "operationCreate"
  /\ LET r == creates[p]
     IN  IF fault THEN ClinicAnswers(p, INTERNAL, 0, {}) /\ UNCHANGED operations
         ELSE /\ operations' = Append(operations,
                   [patientId |-> r.dto.patientId, surgeonId |-> r.dto.surgeonId,
                    name |-> r.dto.name, fee |-> r.dto.fee, deletedAt |-> NULL])
              /\ creates' = [creates EXCEPT ![p].id = Len(operations) + 1,
                                            ![p].pc = "operationBilling",
                                            ![p].time = now]
              /\ UNCHANGED last
  /\ UNCHANGED <<patients, visits, billings, prescriptions>>
  /\ ClinicFrame

\* create: billing.create; the row carries, as history only, the operation
\* whose create wrote it
OperationsCreateBilling(p, fault) ==
  /\ p \in DOMAIN creates
  /\ creates[p].pc = "operationBilling"
  /\ LET r == creates[p]
     IN  IF fault THEN ClinicAnswers(p, INTERNAL, 0, {}) /\ UNCHANGED billings
         ELSE /\ billings' = Append(billings,
                   [patientId |-> r.dto.patientId, type |-> "OPERATION",
                    amount |-> r.dto.fee, status |-> "UNPAID",
                    operation |-> r.id, deletedAt |-> NULL])
              /\ ProfileGoes(p, "operationVisit")
  /\ UNCHANGED <<patients, visits, operations, prescriptions>>
  /\ ClinicFrame

\* visit.findFirst({ where: { patientId, deletedAt: null },
\* orderBy: { visitDate: 'desc' } }): the rows the query can return
LatestVisits(patientId) ==
  {v \in DOMAIN visits :
     /\ visits[v].patientId = patientId
     /\ visits[v].deletedAt = NULL
     /\ \A w \in DOMAIN visits :
          (visits[w].patientId = patientId /\ visits[w].deletedAt = NULL) =>
            visits[w].visitDate <= visits[v].visitDate}

\* create: visit.findFirst; the create returns when there is no visit.  When
\* the look-up throws the catch block answers 500 and the operation and
\* its billing row stay
OperationsCreateFindVisit(p, fault) ==
  /\ p \in DOMAIN creates
  /\ creates[p].pc = "operationVisit"
  /\ LET found == LatestVisits(creates[p].dto.patientId)
     IN  IF fault THEN ClinicReturns(p, INTERNAL)
         ELSE IF found = {} THEN ClinicReturns(p, CREATED)
         ELSE /\ \E latestVisit \in found :
                   creates' = [creates EXCEPT
                             ![p].row = [latestVisit |-> latestVisit,
                                         notes |-> visits[latestVisit].notes],
                             ![p].pc = "operationNote", ![p].time = now]
              /\ UNCHANGED last
  /\ UNCHANGED clinicVars
  /\ ClinicFrame

\* create: visit.update({ where: { id: latestVisit.id }, data: { notes } })
\* with the notes the look-up fetched
OperationsCreateNote(p, fault) ==
  /\ p \in DOMAIN creates
  /\ creates[p].pc = "operationNote"
  /\ LET r == creates[p]
     IN  IF fault THEN ClinicAnswers(p, INTERNAL, 0, {}) /\ UNCHANGED visits
         ELSE /\ visits' = [visits EXCEPT
                   ![r.row.latestVisit].notes = Append(r.row.notes, r.dto.name)]
              /\ ClinicReturns(p, CREATED)
  /\ UNCHANGED <<patients, operations, billings, prescriptions>>
  /\ ClinicFrame

\* a step of an Operation request in flight
OperationsStep(p) ==
  \E fault \in BOOLEAN :
       \/ OperationsCreateFindPatient(p, fault)
       \/ OperationsCreateFindSurgeon(p, fault)
       \/ OperationsCreateFindVisit(p, fault)
       \/ ClinicAuthorize(p, fault)
       \/ OperationsFindBilling(p, fault)
       \/ OperationsCreateOperation(p, fault)
       \/ OperationsCreateBilling(p, fault)
       \/ OperationsCreateNote(p, fault)
       \/ ClinicWrite(p, fault)
       \/ OperationsUpdateBilling(p, fault)

OperatedVisits ==
  <<[patientId |-> 1, doctorId |-> 1, staffId |-> 4, consultationFee |-> 0,
     visitDate |-> 1, feeValidUntil |-> NULL,
     notes |-> <<"Initial registration", "op1">>,
     deletedAt |-> NULL]>>

OperatedOperations ==
  <<[patientId |-> 1, surgeonId |-> 1, name |-> "op1", fee |-> 100,
     deletedAt |-> NULL]>>

OperatedBillings ==
  DatedBillings \o
    <<[patientId |-> 1, type |-> "OPERATION", amount |-> 100,
       status |-> "UNPAID", operation |-> 1, deletedAt |-> NULL]>>

InitOperations ==
  /\ tenants = TwoTenants
  /\ users = StaffedUsers
  /\ userTenants = StaffedMemberships
  /\ doctors = FirstProfile(3)
  /\ staffs = FirstProfile(4)
  /\ patients = DatedPatients
  /\ visits = OperatedVisits
  /\ billings = OperatedBillings
  /\ operations = OperatedOperations
  /\ prescriptions = <<>>
  /\ NoAuthActivity
  /\ creates = <<>>
  /\ now = 1
  /\ last = NoResponse
  /\ calls = 0

OperationCallers == {<<1, 1>>, <<4, 1>>}

CreateOperationDtos ==
  {[patientId |-> 1, surgeonId |-> 1, name |-> "op2", fee |-> 150],
   [patientId |-> 1, surgeonId |-> 1, name |-> "op2", fee |-> 0],
   [patientId |-> 1, surgeonId |-> 1, name |-> "op2", fee |-> 0 - 5]}

OperationFeeDtos == {[fee |-> 0], [fee |-> 120]}

\* the requests come one after the other
NextOperations ==
  \/ \E c \in OperationCallers :
       /\ creates = <<>>
       /\ \/ \E dto \in CreateOperationDtos :
               /\ Len(operations) < MaxOperations
               /\ OperationsCreateBegin(dto, c[1], c[2])
          \/ \E id \in 1 .. MaxOperations :
               \/ ClinicRemoveBegin("Operation", id, c[1], c[2])
               \/ \E dto \in OperationFeeDtos :
                    ClinicUpdateBegin("Operation", id, dto, c[1], c[2])
  \/ \E p \in 1 .. MaxRequests : OperationsStep(p)

SpecOperations == InitOperations /\ [][NextOperations]_vars

\* C15: an Operation.create with fee <= 0 and an Operation.update with a
\* given fee <= 0 do not succeed and no step of theirs changes an operation,
\* billing or visit row, a look-up of theirs that throws included; the
\* answer is 400 once the checks made before the fee check (membership and
\* role, patient and surgeon, the row) have passed, the last of them
\* returning from storage
NonPositiveFeeRejected ==
  [][ /\ \A c \in OperationCallers :
           ( \/ \E dto \in CreateOperationDtos :
                  dto.fee <= 0 /\ OperationsCreateBegin(dto, c[1], c[2])
             \/ \E id \in 1 .. MaxOperations, dto \in OperationFeeDtos :
                  /\ dto.fee <= 0
                  /\ ClinicUpdateBegin("Operation", id, dto, c[1], c[2]) ) =>
              /\ UNCHANGED <<operations, billings, visits>>
              /\ last' # last => last'.status \notin {OK, CREATED}
      /\ \A p \in DOMAIN creates :
           LET r == creates[p]
           IN  ( /\ r.svc = "Operation"
                 /\ r.op \in {"create", "update"}
                 /\ r.dto.fee <= 0 ) =>
                 /\ UNCHANGED <<operations, billings, visits>>
                 /\ Answers(p) => last'.status \notin {OK, CREATED}
                 /\ ( /\ r.pc = "operationSurgeon"
                      /\ r.dto.surgeonId \in DOMAIN doctors
                      /\ doctors[r.dto.surgeonId].tenantId = r.tid
                      /\ doctors[r.dto.surgeonId].deletedAt = NULL
                      /\ OperationsCreateFindSurgeon(p, FALSE) )
                    => Answers(p) /\ last'.status = BAD_REQUEST
                 /\ ( /\ r.pc = "member"
                      /\ isAuthorizedInTenant(r.uid, r.tid, {"DOCTOR", "ADMIN"})
                      /\ ClinicAuthorize(p, FALSE) )
                    => Answers(p) /\ last'.status = BAD_REQUEST ]_vars

\* an update with a fee of zero or less was answered 400 after a create was
NonPositiveFeeWitness ==
  /\ last.svc = "Operation" /\ last.op = "update"
  /\ last.status = BAD_REQUEST
  /\ last.id = 2
  /\ creates = <<>>
  /\ Len(operations) = 2
  /\ operations[2].fee = 150
  /\ billings[Len(billings)].amount = 150

\* C16: when an Operation.update that gives a fee returns with success, the
\* OPERATION billing row written for that operation has the new fee as its
\* amount and the billing rows of the other operations are as they were
\* when the update wrote the operation
UpdateFeeReachesOwnBilling ==
  [][ \A p \in DOMAIN creates :
        LET r == creates[p]
        IN  ( /\ r.svc = "Operation" /\ r.op = "update"
              /\ "fee" \in DOMAIN r.dto
              /\ Answers(p)
              /\ last'.status = OK ) =>
              \A b \in DOMAIN billings :
                 billings[b].type = "OPERATION" =>
                   IF billings[b].operation = r.id
                   THEN billings'[b].amount = r.dto.fee
                   ELSE billings'[b] = billings[b] ]_vars

\* every operation that is not soft-deleted has exactly one OPERATION billing
\* row that is not soft-deleted, of its patient and with its fee as amount,
\* and every such billing row is the row of such an operation
OperationBillingsMatch ==
  /\ \A o \in DOMAIN operations :
       operations[o].deletedAt = NULL =>
         \E b \in DOMAIN billings :
            /\ billings[b].type = "OPERATION"
            /\ billings[b].deletedAt = NULL
            /\ billings[b].operation = o
            /\ billings[b].patientId = operations[o].patientId
            /\ billings[b].amount = operations[o].fee
  /\ \A b \in DOMAIN billings :
       (billings[b].type = "OPERATION" /\ billings[b].deletedAt = NULL) =>
         /\ billings[b].operation \in DOMAIN operations
         /\ operations[billings[b].operation].deletedAt = NULL
         /\ \A d \in DOMAIN billings :
              ( /\ billings[d].type = "OPERATION"
                /\ billings[d].deletedAt = NULL
                /\ billings[d].operation = billings[b].operation ) => d = b

\* Operation.create and Operation.remove alone, one after the other and
\* with no storage failure
NextOperationBillings ==
  \/ \E c \in OperationCallers :
       /\ creates = <<>>
       /\ \/ \E dto \in CreateOperationDtos :
               /\ Len(operations) < MaxOperations
               /\ OperationsCreateBegin(dto, c[1], c[2])
          \/ \E id \in 1 .. MaxOperations :
               ClinicRemoveBegin("Operation", id, c[1], c[2])
  \/ \E p \in 1 .. MaxRequests :
       \/ OperationsCreateFindPatient(p, FALSE)
       \/ OperationsCreateFindSurgeon(p, FALSE)
       \/ OperationsCreateOperation(p, FALSE)
       \/ OperationsCreateBilling(p, FALSE)
       \/ OperationsCreateFindVisit(p, FALSE)
       \/ OperationsCreateNote(p, FALSE)
       \/ ClinicAuthorize(p, FALSE)
       \/ ClinicWrite(p, FALSE)
       \/ OperationsFindBilling(p, FALSE)
       \/ OperationsUpdateBilling(p, FALSE)

SpecOperationBillings == InitOperations /\ [][NextOperationBillings]_vars

\* C17: after any sequence of Operation.create and Operation.remove calls,
\* none of them in progress, the non-deleted OPERATION billing rows are in
\* one-to-one correspondence with the non-deleted operations, amount = fee
RemoveSoftDeletesOwnBilling == creates = <<>> => OperationBillingsMatch

\* the clinic of Init with a second doctor in tenant 1, whom the admin has
\* removed at time 1
CodedUsers ==
  Append(StaffedUsers, [email |-> "d2@x.io", role |-> "DOCTOR", deletedAt |-> 1])

CodedMemberships ==
  Append(StaffedMemberships,
         [userId |-> 5, tenantId |-> 1, role |-> "DOCTOR", deletedAt |-> 1])

CodedDoctors ==
  Append(FirstProfile(3), [userId |-> 5, tenantId |-> 1, employeeCode |-> "E2",
                           isActive |-> FALSE, deletedAt |-> 1])

InitCodes ==
  /\ tenants = TwoTenants
  /\ users = CodedUsers
  /\ userTenants = CodedMemberships
  /\ doctors = CodedDoctors
  /\ staffs = FirstProfile(4)
  /\ patients = FirstPatients
  /\ visits = FirstVisits
  /\ billings = FirstBillings
  /\ operations = FirstOperations
  /\ prescriptions = FirstPrescriptions
  /\ NoAuthActivity
  /\ creates = <<>>
  /\ now = 1
  /\ last = NoResponse
  /\ calls = 0

\* the creates: two doctors with the code E3 in tenant 1, a doctor with the
\* code E1 of tenant 1 in tenant 2, a staff member with the code E3
CodeCreates ==
  {<<"Doctor", [email |-> "n1@x.io", employeeCode |-> "E3"], 1, 1>>,
   <<"Doctor", [email |-> "n2@x.io", employeeCode |-> "E3"], 4, 1>>,
   <<"Doctor", [email |-> "n3@x.io", employeeCode |-> "E1"], 2, 2>>,
   <<"Staff", [email |-> "n1@x.io", employeeCode |-> "E3"], 1, 1>>}

\* the updates: doctor 1 takes the code of doctor 2, staff 1 the code E3
CodeUpdates ==
  {<<"Doctor", 1, [employeeCode |-> "E2"], 1, 1>>,
   <<"Staff", 1, [employeeCode |-> "E3"], 1, 1>>}

NextCodes ==
  \/ \E c \in CodeCreates : ProfileCreateBegin(c[1], c[2], c[3], c[4])
  \/ \E u \in CodeUpdates : ProfileUpdateBegin(u[1], u[2], u[3], u[4], u[5])
  \/ ProfileRemoveBegin("Doctor", 2, 1, 1)
  \/ ProfileRestoreBegin("Doctor", 2, 1, 1)
  \/ ProfileStep

SpecCodes == InitCodes /\ [][NextCodes]_vars

\* two rows of a table that are not soft-deleted, are of one tenant and
\* have the same employeeCode
SameCodeInTenant(profiles) ==
  \E a, b \in DOMAIN profiles :
     /\ a # b
     /\ profiles[a].tenantId = profiles[b].tenantId
     /\ profiles[a].deletedAt = NULL
     /\ profiles[b].deletedAt = NULL
     /\ profiles[a].employeeCode = profiles[b].employeeCode

\* a create that was turned down for its employeeCode
CodeRefused(p) ==
  /\ creates[p].op = "create"
  /\ creates[p].pc = "code" \/ creates[p].pc = "transaction"
  /\ creates'[p].pc = "done"
  /\ creates'[p].status = BAD_REQUEST

\* C18: no two non-deleted Doctor rows and no two non-deleted Staff rows of
\* one tenant have the same employeeCode, whatever the creates, updates,
\* removes and restores and however the creates and updates overlap; and a
\* create is turned down for its code (or its e-mail) only when a row of
\* its own tenant has the code (or a user has the e-mail)
EmployeeCodePerTenant ==
  /\ [](~SameCodeInTenant(doctors) /\ ~SameCodeInTenant(staffs))
  /\ [][ \A p \in DOMAIN creates :
           CodeRefused(p) =>
             \/ \E d \in DOMAIN Table(creates[p].svc) :
                  /\ Table(creates[p].svc)[d].tenantId = creates[p].tid
                  /\ Table(creates[p].svc)[d].employeeCode =
                       creates[p].dto.employeeCode
             \/ UsersByEmail(creates[p].dto.email) # {} ]_vars

\* an update to the code of a soft-deleted doctor was turned down by the
\* index and that doctor is restored
RestoredCodeWitness ==
  \E p \in DOMAIN creates :
     /\ creates[p].op = "update"
     /\ creates[p].at = "transaction"
     /\ creates[p].status = BAD_REQUEST
     /\ \E d \in DOMAIN doctors :
          /\ d # creates[p].id
          /\ doctors[d].deletedAt = NULL
          /\ doctors[d].employeeCode = creates[p].dto.employeeCode

(***************************************************************************)
(* Signups, Doctor and Staff creates and e-mail changes that overlap and   *)
(* ask for the same e-mail address.                                        *)
(***************************************************************************)
\* the statuses of the Conflict class: 409 from signup's lookup, 400 from
\* the lookups of create and from the P2002 handlers
ConflictStatuses == {BAD_REQUEST, CONFLICT}

\* signups for a new address and for the address of doctor 1
EmailSignups ==
  {[email |-> "n1@x.io", tenantName |-> "Clinic N"],
   [email |-> "d1@x.io", tenantName |-> "Clinic N"]}

EmailCreates ==
  {<<"Doctor", [email |-> "n1@x.io", employeeCode |-> "E3"], 1, 1>>,
   <<"Doctor", [email |-> "n2@x.io", employeeCode |-> "E4"], 4, 1>>,
   <<"Staff", [email |-> "n1@x.io", employeeCode |-> "E3"], 1, 1>>}

\* e-mail changes to the new address and to the address of the admin
EmailUpdates ==
  {<<"Doctor", 1, [email |-> "n1@x.io"], 1, 1>>,
   <<"Doctor", 1, [email |-> "a1@x.io"], 4, 1>>,
   <<"Staff", 1, [email |-> "n1@x.io"], 1, 1>>}

\* the requests of a behaviour, signups included
Requests == Len(signups) + Len(creates)

SignupStep ==
  \E p \in 1 .. MaxSignups, fault \in BOOLEAN :
     \/ SignupFindUser(p, fault)
     \/ SignupCreateUser(p, fault)
     \/ \E code \in DrawnCodes : SignupDrawCode(p, code, fault)
     \/ SignupCreateTenant(p, fault)
     \/ SignupLink(p, fault)

NextEmails ==
  \/ \E dto \in EmailSignups : Requests < MaxRequests /\ SignupBegin(dto)
  \/ \E c \in EmailCreates :
       Requests < MaxRequests /\ ProfileCreateBegin(c[1], c[2], c[3], c[4])
  \/ \E u \in EmailUpdates :
       Requests < MaxRequests /\ ProfileUpdateBegin(u[1], u[2], u[3], u[4], u[5])
  \/ SignupStep
  \/ ProfileStep

SpecEmails == InitStaffed /\ [][NextEmails]_vars

\* the tables in which a create or a signup leaves rows
identityTables == <<users, tenants, userTenants, doctors, staffs>>

\* C19: no two User rows hold the same e-mail, whatever the signups,
\* creates and e-mail changes and however they overlap; a create whose
\* transaction, and a signup whose user.create, finds the e-mail taken since
\* its lookup answers with a Conflict status and writes no row, the signup
\* having written none before
EmailGloballyUnique ==
  /\ []EmailUnique(users)
  /\ [][ \A p \in DOMAIN creates :
           ( /\ creates[p].op = "create"
             /\ UsersByEmail(creates[p].dto.email) # {}
             /\ ProfileTransaction(p, 0) ) =>
             /\ creates'[p].status \in ConflictStatuses
             /\ UNCHANGED identityTables ]_vars
  /\ [][ \A p \in DOMAIN signups :
           ( /\ UsersByEmail(signups[p].email) # {}
             /\ SignupCreateUser(p, FALSE) ) =>
             /\ signups'[p].status \in ConflictStatuses
             /\ signups[p].userId = 0
             /\ signups[p].tenantId = 0
             /\ UNCHANGED identityTables ]_vars

\* a signup and a create have both passed their lookup of the same e-mail,
\* one has got it and the other was turned down by the index
EmailRaceWitness ==
  \E s \in DOMAIN signups, p \in DOMAIN creates :
     /\ signups[s].email = creates[p].dto.email
     /\ creates[p].op = "create"
     /\ \/ /\ signups[s].status = CREATED
           /\ creates[p].at = "transaction"
           /\ creates[p].status = BAD_REQUEST
        \/ /\ creates[p].status = CREATED
           /\ signups[s].pc = "done"
           /\ signups[s].status = BAD_REQUEST

(***************************************************************************)
(* remove in the six services, asked by members of every role.             *)
(***************************************************************************)
\* the admins of tenants 1 and 2, the doctor and the staff member of
\* tenant 1
RemoveCallers == {<<1, 1>>, <<2, 2>>, <<3, 1>>, <<4, 1>>}

\* the ids asked for: the rows of the initial state and a missing one
RemoveIds == {1, 2}

\* removes of the six services, which overlap
NextRemoves ==
  \/ \E id \in RemoveIds, c \in RemoveCallers :
       /\ calls < MaxCalls
       /\ \/ ClinicRemoveBegin("Patient", id, c[1], c[2])
          \/ ProfileRemoveBegin("Doctor", id, c[1], c[2])
          \/ ProfileRemoveBegin("Staff", id, c[1], c[2])
          \/ ClinicRemoveBegin("Visit", id, c[1], c[2])
          \/ ClinicRemoveBegin("Operation", id, c[1], c[2])
          \/ ClinicRemoveBegin("Prescription", id, c[1], c[2])
  \/ \E p \in 1 .. MaxRequests :
       \/ ProfileAuthorize(p, FALSE)
       \/ ProfileTransaction(p, 0)
       \/ ClinicAuthorize(p, FALSE)
       \/ ClinicWrite(p, FALSE)
       \/ OperationsFindBilling(p, FALSE)
       \/ OperationsUpdateBilling(p, FALSE)

SpecRemoves == InitStaffed /\ [][NextRemoves]_vars

\* the roles the user has in the tenant that owns the row
RolesInOwner(svc, id, uid) ==
  {userTenants[i].role : i \in UserTenantRows(uid, OwnerTenant(svc, id))}

\* the table has the rows it had, each as it was but for its delete
\* timestamp and its isActive flag
RowsKept(old, new) ==
  /\ DOMAIN new = DOMAIN old
  /\ \A i \in DOMAIN old :
       \A f \in DOMAIN old[i] \ {"deletedAt", "isActive"} : new[i][f] = old[i][f]

\* the table of a service after the step
TableAfter(svc) ==
  CASE svc = "Doctor" -> doctors'
    [] svc = "Staff" -> staffs'
    [] svc = "Patient" -> patients'
    [] svc = "Visit" -> visits'
    [] svc = "Operation" -> operations'
    [] svc = "Prescription" -> prescriptions'

\* C20: a remove answers OK only to a caller with the role ADMIN in the
\* tenant that owns the row, and then the row has a delete timestamp; to a
\* caller with the role DOCTOR, STAFF or NURSE there it answers Forbidden
\* for a row that is not soft-deleted and writes nothing; and no remove,
\* whatever its answer, takes a row out of a table
RemoveAdminOnlySoftDelete ==
  [][ (last' # last /\ last'.op = "remove") =>
        LET svc == last'.svc
            id == last'.id
            live == ~NotFoundOrDeleted(Table(svc), id)
        IN  /\ last'.status = OK =>
                 /\ "ADMIN" \in RolesInOwner(svc, id, last'.uid)
                 /\ TableAfter(svc)[id].deletedAt # NULL
            /\ ( /\ live
                 /\ RolesInOwner(svc, id, last'.uid) # {}
                 /\ RolesInOwner(svc, id, last'.uid) \subseteq
                      {"DOCTOR", "STAFF", "NURSE"} ) =>
                 /\ last'.status = FORBIDDEN
                 /\ UNCHANGED tables
            /\ RowsKept(users, users') /\ RowsKept(userTenants, userTenants')
            /\ RowsKept(doctors, doctors') /\ RowsKept(staffs, staffs')
            /\ RowsKept(patients, patients') /\ RowsKept(visits, visits')
            /\ RowsKept(operations, operations')
            /\ RowsKept(billings, billings')
            /\ RowsKept(prescriptions, prescriptions') ]_vars

\* the admin has removed the operation, whose row is still in its table,
\* and the staff member has just been refused the removal of the visit
StaffRefusedWitness ==
  /\ last.svc = "Visit" /\ last.op = "remove" /\ last.id = 1
  /\ last.uid = 4
  /\ last.status = FORBIDDEN
  /\ visits[1].deletedAt = NULL
  /\ Len(operations) = 1
  /\ operations[1].deletedAt # NULL

(***************************************************************************)
(* Further properties of the entity services.                              *)
(***************************************************************************)
\* C21: the rows a findAll of any service returns belong, when it returns
\* them, to the caller's tenant and are not soft-deleted
FindAllOnlyLiveRowsOfTenant ==
  [][ (\E p \in DOMAIN creates :
         ClinicFindMany(p, FALSE) \/ ProfileFindMany(p, FALSE)) =>
        \A r \in last'.data :
           /\ OwnerTenant(last'.svc, r) = last'.tid
           /\ Table(last'.svc)[r].deletedAt = NULL ]_vars

\* visits asked for by the staff member of tenant 1 while the admin removes
\* the patient and the doctor they name
\* the requests come one after the other
NextReferences ==
  \/ \E c \in VisitCallers, dto \in CreateVisitDtos :
       /\ InFlight = {}
       /\ Len(visits) < MaxVisits
       /\ VisitsCreateBegin(dto, c[1], c[2])
  \/ VisitsCreateStep
  \/ InFlight = {} /\ ClinicRemoveBegin("Patient", 1, 1, 1)
  \/ InFlight = {} /\ ProfileRemoveBegin("Doctor", 1, 1, 1)
  \/ \E p \in DOMAIN creates :
       \/ ProfileAuthorize(p, FALSE)
       \/ ProfileTransaction(p, 0)
       \/ ClinicAuthorize(p, FALSE)
       \/ ClinicWrite(p, FALSE)

SpecReferences == InitVisits /\ [][NextReferences]_vars

\* C22: a Visit.create that names a soft-deleted patient or a soft-deleted
\* doctor creates no visit: every visit a create inserts is of a patient and
\* of a doctor that are not soft-deleted
CreateRefusesDeletedReferences ==
  [][ (\E p \in DOMAIN creates : VisitsCreateVisit(p, FALSE)) =>
        /\ patients[visits'[Len(visits')].patientId].deletedAt = NULL
        /\ doctors[visits'[Len(visits')].doctorId].deletedAt = NULL ]_vars

(***************************************************************************)
(* Requests that are turned down.  Patient.create, Visit.create, signup,   *)
(* and the updates and removes of Doctor, Staff, Patient and Visit, asked  *)
(* with valid and invalid bodies by members and non-members.               *)
(***************************************************************************)
\* the codes nanoid(6).toUpperCase() may draw, as texts
DrawnTexts ==
  {<<"A", "B", "C", "1", "2", "3">>, <<"N", "E", "W", "0", "0", "1">>}

\* the statuses of the Validation, Forbidden, NotFound and Conflict classes
RejectionStatuses == {BAD_REQUEST, FORBIDDEN, NOT_FOUND, CONFLICT}

\* the creates, updates and signups of a behaviour
Begun == Len(signups) + Len(creates) + Len(visits)

\* the staff member of tenant 1 and a pair with no membership
FailureCallers == {<<4, 1>>, <<1, 2>>}

FailureVisitDtos ==
  {[patientId |-> 1, doctorId |-> 1],
   [patientId |-> 1, doctorId |-> 1, consultationFee |-> 0 - 1]}

FailurePatientDtos ==
  {[registrationFee |-> 30, doctorId |-> 1],
   [registrationFee |-> 0],
   [registrationFee |-> 30, doctorId |-> 2]}

FailureSignupDtos ==
  {[email |-> "n1@x.io", tenantName |-> "Clinic N"],
   [email |-> "a1@x.io", tenantName |-> "Clinic N"],
   [email |-> "", tenantName |-> "Clinic N"]}

\* an update the admin may make, and updates to a new code and to the
\* e-mail of the admin or of a signup
FailureUpdateDtos ==
  {[isActive |-> FALSE], [employeeCode |-> "E2", email |-> "a1@x.io"],
   [employeeCode |-> "E2", email |-> "n1@x.io"]}

NextFailures ==
  \/ \E c \in FailureCallers, dto \in FailurePatientDtos :
       Begun < MaxRequests /\ PatientsCreateBegin(dto, c[1], c[2])
  \/ PatientsCreateStep
  \/ \E dto \in FailureSignupDtos : Begun < MaxRequests /\ SignupBegin(dto)
  \/ \E p \in 1 .. MaxSignups, fault \in BOOLEAN :
       \/ SignupFindUser(p, fault)
       \/ SignupCreateUser(p, fault)
       \/ \E code \in DrawnTexts : SignupDrawCode(p, code, fault)
       \/ SignupCreateTenant(p, fault)
       \/ SignupLink(p, fault)
  \/ \E c \in FailureCallers, dto \in FailureVisitDtos :
       Begun < MaxRequests /\ VisitsCreateBegin(dto, c[1], c[2])
  \/ VisitsCreateStep
  \/ \E c \in {<<1, 1>>, <<4, 1>>} :
       \E dto \in FailureUpdateDtos :
          Begun < MaxRequests /\ ProfileUpdateBegin("Staff", 1, dto, c[1], c[2])
  \/ \E p \in DOMAIN creates :
       \/ ProfileAuthorize(p, FALSE)
       \/ ProfileFindCode(p, FALSE)
       \/ ProfileFindUser(p, FALSE)
       \/ ProfileTransaction(p, 0)
       \/ ClinicAuthorize(p, FALSE)
  \/ Begun < MaxRequests /\ ClinicRemoveBegin("Patient", 1, 4, 1)

SpecFailures == InitPatients /\ [][NextFailures]_vars

\* request p of the sequence returns in this step with a status of the
\* four classes and stays in the sequence
Rejected(before, after, p) ==
  /\ Len(after) >= Len(before)
  /\ after[p].pc = "done"
  /\ after[p].status \in RejectionStatuses
  /\ p \in DOMAIN before => before[p].pc # "done"

\* the positions of a request after its first write
WrittenAt ==
  {"patientBilling", "visit", "noOfVisits", "visitCount", "visitBilling",
   "billingFind", "billingWrite"}

\* C23: a request of an entity service or a signup that ends with a
\* Validation, Forbidden, NotFound or Conflict status leaves every table as
\* it was, and a signup that ends so has written no row before
FailuresLeaveStorage ==
  /\ [][ (last' # last /\ last'.status \in RejectionStatuses) =>
           /\ UNCHANGED tables
           /\ \A p \in DOMAIN creates :
                Answers(p) => creates[p].pc \notin WrittenAt ]_vars
  /\ [][ \A p \in DOMAIN creates' :
           Rejected(creates, creates', p) =>
             /\ UNCHANGED tables
             /\ p \in DOMAIN creates => creates[p].pc \notin WrittenAt ]_vars
  /\ [][ \A p \in DOMAIN signups' :
           Rejected(signups, signups', p) =>
             /\ UNCHANGED tables
             /\ p \in DOMAIN signups =>
                  signups[p].userId = 0 /\ signups[p].tenantId = 0 ]_vars

\* a signup was turned down for its e-mail and a Staff.update has just been
\* turned down for its e-mail
RejectionsWitness ==
  /\ \E p \in DOMAIN signups :
       signups[p].pc = "done" /\ signups[p].status = CONFLICT
  /\ last.svc = "Staff" /\ last.op = "update" /\ last.status = BAD_REQUEST

(***************************************************************************)
(* Further properties of signup.                                           *)
(***************************************************************************)
\* C24: no two Tenant rows have the same code, and a signup whose
\* tenant.create finds its code taken since the look-up draws again
\* instead of returning
TenantCodeRaceRedraws ==
  /\ [](\A a, b \in DOMAIN tenants : a # b => tenants[a].code # tenants[b].code)
  /\ [][ \A p \in DOMAIN signups :
           ( /\ TenantsByCode(signups[p].code) # {}
             /\ SignupCreateTenant(p, FALSE) ) =>
             signups'[p].pc = "drawCode" ]_vars

\* the signups that have inserted the row their field names
Inserted(field) == {p \in DOMAIN signups : signups[p][field] # 0}

SignedUp == {p \in DOMAIN signups : signups[p].status = CREATED}

\* C25: a signup that has returned 201 has one User row with its e-mail and
\* the role ADMIN, one Tenant row with its name and the code it drew, and
\* one UserTenant row linking the two with the role ADMIN; the signups have
\* inserted no other User, Tenant or UserTenant row and no token is issued;
\* a code is kept only if no Tenant holds it at its look-up; and a signup
\* whose look-up finds its e-mail registered returns 409 and has written
\* and writes nothing
SignupCreatesOneOfEach ==
  /\ [](/\ \A p \in SignedUp :
             LET u == signups[p].userId
                 t == signups[p].tenantId
             IN  /\ u \in DOMAIN users /\ t \in DOMAIN tenants
                 /\ users[u].email = signups[p].email
                 /\ users[u].role = "ADMIN"
                 /\ tenants[t].name = signups[p].tenantName
                 /\ tenants[t].code = signups[p].code
                 /\ Cardinality(UserTenantRows(u, t)) = 1
                 /\ \A i \in UserTenantRows(u, t) : userTenants[i].role = "ADMIN"
                 /\ \A q \in DOMAIN signups \ {p} :
                      signups[q].userId # u /\ signups[q].tenantId # t
        /\ Len(users) = Len(StaffedUsers) + Cardinality(Inserted("userId"))
        /\ Len(tenants) = Len(TwoTenants) + Cardinality(Inserted("tenantId"))
        /\ Len(userTenants) = Len(StaffedMemberships) + Cardinality(SignedUp)
        /\ tokens = {})
  /\ [][ \A p \in DOMAIN signups :
           (signups[p].pc = "drawCode" /\ signups'[p].pc = "createTenant") =>
             \A t \in DOMAIN tenants : tenants[t].code # signups'[p].code ]_vars
  /\ [][ \A p \in DOMAIN signups :
           ( /\ UsersByEmail(signups[p].email) # {}
             /\ SignupFindUser(p, FALSE) ) =>
             /\ signups'[p].pc = "done"
             /\ signups'[p].status = CONFLICT
             /\ signups[p].userId = 0 /\ signups[p].tenantId = 0
             /\ UNCHANGED tables ]_vars

\* one signup has returned 201 and one, for the e-mail of the admin of
\* tenant 1, has returned 409
SignedUpWitness ==
  /\ \E p \in SignedUp : signups[p].code = "NEW001"
  /\ \E p \in DOMAIN signups :
       /\ signups[p].email = "a1@x.io"
       /\ signups[p].pc = "done"
       /\ signups[p].status = CONFLICT

(***************************************************************************)
(* Further properties of Patient.create and Visit.create.                  *)
(***************************************************************************)
\* the rows of a table that are of the patient
RowsOfPatient(table, patientId) ==
  {i \in DOMAIN table : table[i].patientId = patientId}

\* C26: a Patient.create that has returned 201 has left one patient of the
\* caller's tenant with noOfVisits 1, one REGISTRATION billing row, UNPAID,
\* of the registration fee, and one visit with consultation fee 0; and the
\* create reaches that end with and without a doctorId: its visit.create,
\* when the storage does not fail, inserts the visit
PatientCreateSideEffects ==
  /\ [](\A p \in DOMAIN creates :
          creates[p].status = CREATED =>
            LET id == creates[p].patientId
            IN  /\ patients[id].tenantId = creates[p].tid
                /\ patients[id].noOfVisits = 1
                /\ Cardinality(RowsOfPatient(billings, id)) = 1
                /\ \A b \in RowsOfPatient(billings, id) :
                     /\ billings[b].type = "REGISTRATION"
                     /\ billings[b].status = "UNPAID"
                     /\ billings[b].amount = creates[p].dto.registrationFee
                /\ Cardinality(RowsOfPatient(visits, id)) = 1
                /\ \A v \in RowsOfPatient(visits, id) :
                     visits[v].consultationFee = 0)
  /\ [][ \A p \in DOMAIN creates :
           PatientsCreateVisit(p, FALSE) =>
             /\ Len(visits') = Len(visits) + 1
             /\ creates'[p].pc = "noOfVisits" ]_vars

(***************************************************************************)
(* Remove and restore of a Doctor and of a Staff profile as a round trip:  *)
(* the admin and the staff member of tenant 1 remove, restore and read the *)
(* first doctor and the first staff member, and the admin deactivates the  *)
(* doctor.                                                                 *)
(***************************************************************************)
RoundTripCallers == {<<1, 1>>, <<4, 1>>}

NextRoundTrip ==
  \/ \E c \in RoundTripCallers, svc \in {"Doctor", "Staff"} :
       \/ ProfileRemoveBegin(svc, 1, c[1], c[2])
       \/ ProfileRestoreBegin(svc, 1, c[1], c[2])
       \/ ProfileFindOneBegin(svc, 1, c[1], c[2])
  \/ ProfileUpdateBegin("Doctor", 1, [isActive |-> FALSE], 1, 1)
  \/ \E p \in 1 .. MaxRequests :
       \/ ProfileAuthorize(p, FALSE)
       \/ \E fault \in ProfileFaults : ProfileTransaction(p, fault)
  \/ Tick

SpecRoundTrip == InitStaffed /\ [][NextRoundTrip]_vars

\* the profile row a restore has just answered OK for
Restored == last.op = "restore" /\ last.status = OK

\* C27: after a restore answered OK, the profile, its User and its
\* membership have no delete timestamp, findOne by the restoring admin
\* answers OK, and the user is authorized in the tenant with the role of its
\* membership, which no step of a remove, a restore or an update changes
RemoveRestoreRoundTrip ==
  /\ [](Restored =>
          LET profiles == Table(last.svc)
              p == profiles[last.id]
              ms == UserTenantRows(p.userId, p.tenantId)
          IN  /\ p.deletedAt = NULL
              /\ users[p.userId].deletedAt = NULL
              /\ ms # {}
              /\ \A m \in ms : userTenants[m].deletedAt = NULL
              /\ FetchProfileRejection(profiles, last.id, "findOne",
                                       last.tid) = 0
              /\ AuthorizeProfileRejection(RolesOf(last.svc).read,
                                           last.uid, last.tid) = 0
              /\ isAuthorizedInTenant(p.userId, p.tenantId,
                                      {NewRole(last.svc)}))
  /\ [][ \A m \in DOMAIN userTenants :
           /\ m \in DOMAIN userTenants'
           /\ userTenants'[m].role = userTenants[m].role
           /\ userTenants'[m].userId = userTenants[m].userId
           /\ userTenants'[m].tenantId = userTenants[m].tenantId ]_vars

\* the doctor was removed at an earlier time and is restored now
RoundTripWitness ==
  /\ Restored
  /\ last.svc = "Doctor"
  /\ now > 1
  /\ doctors[1].deletedAt = NULL
  /\ userTenants[3].deletedAt = NULL
  /\ isAuthorizedInTenant(3, 1, {"DOCTOR"})

(***************************************************************************)
(* The visit counter of a patient.  The staff member of tenant 1 registers *)
(* a patient with doctor 1 and books visits for patient 1 and for the       *)
(* patient being registered; each storage call is a step of its own for    *)
(* both, so the calls of a Visit.create can fall between two of them.      *)
(***************************************************************************)
CounterVisitDtos ==
  {[patientId |-> 1, doctorId |-> 1], [patientId |-> 3, doctorId |-> 1]}

NextCounter ==
  \/ /\ creates = <<>>
     /\ PatientsCreateBegin([registrationFee |-> 30, doctorId |-> 1], 4, 1)
  \/ PatientsCreateStep
  \/ \E dto \in CounterVisitDtos :
       Len(visits) < MaxVisits /\ VisitsCreateBegin(dto, 4, 1)
  \/ VisitsCreateStep

SpecCounter == InitPatients /\ [][NextCounter]_vars

\* no request is between two of its steps
Quiescent == \A p \in DOMAIN creates : creates[p].pc = "done"

\* C28: whenever no operation is in progress, the noOfVisits of each patient
\* is the number of the Visit rows of that patient
NoOfVisitsCountsVisits ==
  Quiescent =>
    \A id \in DOMAIN patients :
       patients[id].noOfVisits = Cardinality(RowsOfPatient(visits, id))

(***************************************************************************)
(* The fee-waiver window over a history of visits.  Patient 1 has the      *)
(* visit Patient.create wrote on day 1, patient 3 has none; the staff      *)
(* member of tenant 1 books visits for both, 2 or 13 days apart.           *)
(***************************************************************************)
ChainVisitDtos ==
  {[patientId |-> 1, doctorId |-> 1], [patientId |-> 3, doctorId |-> 1]}

\* the requests come one after the other, and no day passes within one
NextChain ==
  \/ \E d \in {2, 13} : creates = <<>> /\ Days(d)
  \/ \E dto \in ChainVisitDtos :
       /\ creates = <<>>
       /\ Len(visits) <= MaxVisits
       /\ VisitsCreateBegin(dto, 4, 1)
  \/ VisitsCreateStep

SpecChain == InitVisits /\ [][NextChain]_vars

\* the rows Visit.create has written: those after the rows of the first state
VisitsCreated == {v \in DOMAIN visits : v > Len(DatedVisits)}

\* C29: every visit row written by Visit.create has a feeValidUntil, not
\* earlier than the day the row was written
FeeValidUntilNotPast ==
  \A v \in VisitsCreated :
     /\ visits[v].feeValidUntil # NULL
     /\ visits[v].feeValidUntil >= visits[v].visitDate

(***************************************************************************)
(* Roles.  A signup, the creates and an update of the Doctor and Staff     *)
(* services, step by step, the remove and the restore of the first doctor  *)
(* by the admin of tenant 1, and logins of the doctor and of the user the  *)
(* behaviour creates first.                                                *)
(***************************************************************************)
RoleSignups == {[email |-> "n1@x.io", tenantName |-> "Clinic N"]}

RoleCreates ==
  {<<"Doctor", [email |-> "n2@x.io", employeeCode |-> "E3"], 4, 1>>,
   <<"Staff", [email |-> "n2@x.io", employeeCode |-> "E3"], 1, 1>>}

RoleUpdates == {<<"Doctor", 1, [email |-> "n3@x.io"], 1, 1>>}

\* the e-mail and the password of the doctor and of the fifth user
RoleLogins == {<<"d1@x.io", <<"pw", 3>>>>, <<"n1@x.io", <<"pw", 5>>>>,
               <<"n2@x.io", <<"pw", 5>>>>}

NextRoles ==
  \/ \E dto \in RoleSignups : Requests < MaxRequests /\ SignupBegin(dto)
  \/ \E c \in RoleCreates :
       Requests < MaxRequests /\ ProfileCreateBegin(c[1], c[2], c[3], c[4])
  \/ \E u \in RoleUpdates :
       Requests < MaxRequests /\ ProfileUpdateBegin(u[1], u[2], u[3], u[4], u[5])
  \/ Requests < MaxRequests /\ ProfileRemoveBegin("Doctor", 1, 1, 1)
  \/ Requests < MaxRequests /\ ProfileRestoreBegin("Doctor", 1, 1, 1)
  \/ SignupStep
  \/ ProfileStep
  \/ \E l \in RoleLogins, fault \in BOOLEAN : LoginBegin(l[1], l[2], "", fault)
  \/ \E fault \in BOOLEAN : LoginFindMemberships(fault)

SpecRoles == InitStaffed /\ [][NextRoles]_vars

\* the membership rows of a user, in all tenants
MembershipRows(userId) ==
  {m \in DOMAIN userTenants : userTenants[m].userId = userId}

\* C30: each user has at most one membership row, whose role is the role of
\* the User row; the role claim of each issued token is the role of the
\* membership of the token's user in the token's tenant; no step changes the
\* role of a membership row, and a step that adds a membership row with the
\* role ADMIN is the last write of a signup
OneMembershipOneRole ==
  /\ [](/\ \A u \in DOMAIN users : Cardinality(MembershipRows(u)) <= 1
        /\ \A m \in DOMAIN userTenants :
             /\ userTenants[m].userId \in DOMAIN users
             /\ userTenants[m].role = users[userTenants[m].userId].role
        /\ \A t \in tokens :
             /\ UserTenantRows(t.id, t.tenantId) # {}
             /\ \A m \in UserTenantRows(t.id, t.tenantId) :
                  userTenants[m].role = t.role)
  /\ [][ /\ \A m \in DOMAIN userTenants :
              /\ m \in DOMAIN userTenants'
              /\ userTenants'[m].role = userTenants[m].role
         /\ \A m \in DOMAIN userTenants' \ DOMAIN userTenants :
              userTenants'[m].role = "ADMIN" =>
                \E p \in DOMAIN signups :
                   /\ signups[p].pc = "link"
                   /\ signups'[p].status = CREATED
                   /\ userTenants'[m].userId = signups[p].userId ]_vars

\* the admin who signed up and a doctor created by the staff member have
\* both logged in
RolesWitness ==
  /\ \E t \in tokens : t.id = 5 /\ t.role = "ADMIN" /\ t.tenantId = 3
  /\ \E t \in tokens : t.role = "DOCTOR"
  /\ Len(userTenants) = 6
  /\ \E m \in DOMAIN userTenants : m > 4 /\ userTenants[m].role = "DOCTOR"

(***************************************************************************)
(* Prescription.create.  Like the other handlers of the clinical services  *)
(* it awaits its storage calls one after the other.                        *)
(***************************************************************************)
\* create: isAuthorizedInTenant with [DOCTOR, ADMIN]
PrescriptionsCreateBegin(dto, uid, tid) ==
  ClinicBegins("Prescription", "create", 0, dto, uid, tid, NoClinicRow,
               IF ~ClinicAuthorized("Prescription", "create", uid, tid)
               THEN FORBIDDEN ELSE 0,
               "prescriptionVisit")

\* create: visit.findUnique({ where: { id: visitId, deletedAt: null },
\* include: { patient: true } }), then the list of medications is not empty
PrescriptionsCreateFindVisit(p, fault) ==
  /\ p \in DOMAIN creates
  /\ creates[p].pc = "prescriptionVisit"
  /\ LET r == creates[p]
     IN  IF fault THEN ClinicReturns(p, INTERNAL)
         ELSE IF \/ r.dto.visitId \notin DOMAIN visits
                 \/ visits[r.dto.visitId].deletedAt # NULL
                 \/ patients[visits[r.dto.visitId].patientId].tenantId # r.tid
         THEN ClinicReturns(p, NOT_FOUND)
         ELSE IF "medications" \notin DOMAIN r.dto \/ r.dto.medications = <<>>
         THEN ClinicReturns(p, BAD_REQUEST)
         ELSE ProfileGoes(p, "prescriptionCreate")
  /\ UNCHANGED clinicVars
  /\ ClinicFrame

\* create: prescription.create({ data: { visitId, medications } }); the
\* catch block answers 500
PrescriptionsCreatePrescription(p, fault) ==
  /\ p \in DOMAIN creates
  /\ creates[p].pc = "prescriptionCreate"
  /\ LET r == creates[p]
     IN  IF fault
         THEN ClinicAnswers(p, INTERNAL, 0, {}) /\ UNCHANGED prescriptions
         ELSE /\ prescriptions' = Append(prescriptions,
                   [visitId |-> r.dto.visitId, medications |-> r.dto.medications,
                    deletedAt |-> NULL])
              /\ ClinicAnswers(p, CREATED, Len(prescriptions) + 1, {})
  /\ UNCHANGED <<patients, visits, operations, billings>>
  /\ ClinicFrame

\* a step of a Prescription.create in flight
PrescriptionsCreateStep ==
  \E p \in DOMAIN creates :
     \E fault \in BOOLEAN :
        \/ PrescriptionsCreateFindVisit(p, fault)
        \/ PrescriptionsCreatePrescription(p, fault)

(***************************************************************************)
(* The six entity services over one clinic.  Every handler is offered to   *)
(* every caller, for the ids of the first rows and one past them; the      *)
(* requests overlap, a storage call may throw at every await, and time     *)
(* passes between any two steps.  A behaviour has up to MaxCalls requests. *)
(***************************************************************************)
\* patient 1 of tenant 1 was registered with doctor 1 by the staff user 4 and
\* had an operation and a prescription; patient 2 of tenant 2 was registered
\* with no doctor by the admin user 2, so that its first visit was not created
ClinicPatients ==
  <<[tenantId |-> 1, doctorId |-> 1, registrationFee |-> 30, noOfVisits |-> 1,
     patientNumber |-> PatientNumber(CodedTenants[1].code, 0),
     deletedAt |-> NULL],
    [tenantId |-> 2, doctorId |-> NULL, registrationFee |-> 30, noOfVisits |-> 0,
     patientNumber |-> PatientNumber(CodedTenants[2].code, 0),
     deletedAt |-> NULL]>>

ClinicBillings ==
  <<[patientId |-> 1, type |-> "REGISTRATION", amount |-> 30,
     status |-> "UNPAID", deletedAt |-> NULL],
    [patientId |-> 2, type |-> "REGISTRATION", amount |-> 30,
     status |-> "UNPAID", deletedAt |-> NULL],
    [patientId |-> 1, type |-> "OPERATION", amount |-> 100,
     status |-> "UNPAID", operation |-> 1, deletedAt |-> NULL]>>

Init ==
  /\ tenants = CodedTenants
  /\ users = StaffedUsers
  /\ userTenants = StaffedMemberships
  /\ doctors = FirstProfile(3)
  /\ staffs = FirstProfile(4)
  /\ patients = ClinicPatients
  /\ visits = OperatedVisits
  /\ billings = ClinicBillings
  /\ operations = OperatedOperations
  /\ prescriptions = FirstPrescriptions
  /\ NoAuthActivity
  /\ creates = <<>>
  /\ now = 1
  /\ last = NoResponse
  /\ calls = 0

\* the bodies of the creates and of the updates of a profile
ProfileCreateDtos ==
  {[email |-> "n1@x.io", employeeCode |-> "E2"],
   [email |-> "a1@x.io", employeeCode |-> "E1"]}

ProfileUpdateDtos == {[isActive |-> FALSE], [employeeCode |-> "E2"]}

\* the bodies of the creates of the clinical services
PatientCreateDtos == {[registrationFee |-> 30, doctorId |-> 1],
                      [registrationFee |-> 0]}

VisitCreateDtos == {[patientId |-> 1, doctorId |-> 1],
                    [patientId |-> 2, doctorId |-> 1]}

OperationCreateDtos ==
  {[patientId |-> 1, surgeonId |-> 1, name |-> "op2", fee |-> 150],
   [patientId |-> 1, surgeonId |-> 1, name |-> "op2", fee |-> 0]}

PrescriptionCreateDtos == {[visitId |-> 1, medications |-> <<"m2">>],
                           [visitId |-> 1, medications |-> <<>>],
                           [visitId |-> 2, medications |-> <<"m2">>]}

\* the first storage call of a request throws: the request answers 500 and
\* has written nothing.  The handlers of Patient.create answer through their
\* record
RequestFails(svc, op, id, uid, tid) ==
  /\ last' = Response(svc, op, id, uid, tid, INTERNAL, {})
  /\ Received
  /\ UNCHANGED <<users, tenants, userTenants, staffVars, clinicVars, now,
                 authVars, creates>>

PatientsCreateFails(dto, uid, tid) ==
  /\ Len(creates) < MaxCreates
  /\ creates' = Append(creates,
       [svc |-> "Patient", op |-> "create", uid |-> uid, tid |-> tid,
        dto |-> dto, pc |-> "done", code |-> <<>>, count |-> 0,
        patientNumber |-> <<>>, patientId |-> 0, status |-> INTERNAL])
  /\ Received
  /\ UNCHANGED <<users, tenants, userTenants, staffVars, clinicVars, now, last,
                 authVars>>

\* a request of DoctorsService or StaffsService arrives
ProfilesRequest(svc) ==
  \E c \in Callers :
     \/ \E dto \in ProfileCreateDtos : ProfileCreateBegin(svc, dto, c[1], c[2])
     \/ \E page \in Pages :
          ProfileFindAllBegin(svc, c[1], c[2], page[1], page[2])
     \/ \E op \in {"create", "findAll"} : RequestFails(svc, op, 0, c[1], c[2])
     \/ \E id \in EntityIds :
          \/ ProfileFindOneBegin(svc, id, c[1], c[2])
          \/ \E dto \in ProfileUpdateDtos :
               ProfileUpdateBegin(svc, id, dto, c[1], c[2])
          \/ ProfileRemoveBegin(svc, id, c[1], c[2])
          \/ ProfileRestoreBegin(svc, id, c[1], c[2])
          \/ \E op \in {"findOne", "update", "remove", "restore"} :
               RequestFails(svc, op, id, c[1], c[2])

DoctorsRequest == ProfilesRequest("Doctor")

StaffsRequest == ProfilesRequest("Staff")

\* findAll, findOne, update and remove of a clinical service
ClinicRequest(svc) ==
  \E c \in Callers :
     \/ \E f \in Filters(svc) : ClinicFindAllBegin(svc, c[1], c[2], f[1], f[2])
     \/ RequestFails(svc, "findAll", 0, c[1], c[2])
     \/ \E id \in EntityIds :
          \/ ClinicFindOneBegin(svc, id, c[1], c[2])
          \/ \E dto \in UpdateDtos(svc) :
               ClinicUpdateBegin(svc, id, dto, c[1], c[2])
          \/ ClinicRemoveBegin(svc, id, c[1], c[2])
          \/ \E op \in {"findOne", "update", "remove"} :
               RequestFails(svc, op, id, c[1], c[2])

\* a request of PatientsService arrives
PatientsRequest ==
  \/ ClinicRequest("Patient")
  \/ \E c \in Callers, dto \in PatientCreateDtos :
       \/ PatientsCreateBegin(dto, c[1], c[2])
       \/ PatientsCreateFails(dto, c[1], c[2])

\* a request of VisitsService arrives
VisitsRequest ==
  \/ ClinicRequest("Visit")
  \/ \E c \in Callers :
       \/ \E dto \in VisitCreateDtos : VisitsCreateBegin(dto, c[1], c[2])
       \/ RequestFails("Visit", "create", 0, c[1], c[2])

\* a request of OperationsService arrives
OperationsRequest ==
  \/ ClinicRequest("Operation")
  \/ \E c \in Callers :
       \/ \E dto \in OperationCreateDtos : OperationsCreateBegin(dto, c[1], c[2])
       \/ RequestFails("Operation", "create", 0, c[1], c[2])

\* a request of PrescriptionsService arrives
PrescriptionsRequest ==
  \/ ClinicRequest("Prescription")
  \/ \E c \in Callers :
       \/ \E dto \in PrescriptionCreateDtos : PrescriptionsCreateBegin(dto, c[1], c[2])
       \/ RequestFails("Prescription", "create", 0, c[1], c[2])

\* a step of a Doctor or Staff request in flight
ProfilesStep ==
  \E p \in DOMAIN creates :
     \/ \E fault \in BOOLEAN :
          \/ ProfileAuthorize(p, fault)
          \/ ProfileFindMany(p, fault)
          \/ ProfileFindTenant(p, fault)
          \/ ProfileFindUser(p, fault)
          \/ ProfileFindCode(p, fault)
     \/ \E fault \in ProfileFaults : ProfileTransaction(p, fault)

\* a step of a findAll, findOne, update or remove of a clinical service
ClinicStep ==
  \E p \in DOMAIN creates :
     \E fault \in BOOLEAN :
        \/ ClinicFindMany(p, fault)
        \/ ClinicAuthorize(p, fault)
        \/ ClinicWrite(p, fault)
        \/ OperationsFindBilling(p, fault)
        \/ OperationsUpdateBilling(p, fault)

\* a step of an Operation.create in flight
OperationsCreateStep ==
  \E p \in DOMAIN creates :
     \E fault \in BOOLEAN :
        \/ OperationsCreateFindPatient(p, fault)
        \/ OperationsCreateFindSurgeon(p, fault)
        \/ OperationsCreateOperation(p, fault)
        \/ OperationsCreateBilling(p, fault)
        \/ OperationsCreateFindVisit(p, fault)
        \/ OperationsCreateNote(p, fault)

Next ==
  \/ Tick
  \/ calls < MaxCalls /\ DoctorsRequest
  \/ calls < MaxCalls /\ StaffsRequest
  \/ calls < MaxCalls /\ PatientsRequest
  \/ calls < MaxCalls /\ VisitsRequest
  \/ calls < MaxCalls /\ OperationsRequest
  \/ calls < MaxCalls /\ PrescriptionsRequest
  \/ ProfilesStep
  \/ ClinicStep
  \/ PatientsCreateStep
  \/ VisitsCreateStep
  \/ OperationsCreateStep
  \/ PrescriptionsCreateStep

Spec == Init /\ [][Next]_vars

====
